---------------------------- MODULE Spec2Model ----------------------------
(***************************************************************************)
(* A model of the vintages dashboard's SeriesVisualizer (src/series.py):   *)
(* the three-way threaded fetch, the construction of the Revision Table    *)
(* (df_reversed) from the provider's vintages mapping, and the transforms  *)
(* that read it.                                                           *)
(*                                                                         *)
(* Two specifications share the state:                                     *)
(*   Spec       fetch_all_data, one step per thread statement, and the     *)
(*              caller's read of the three slots after it returns;         *)
(*   SpecTable  fetch_vintages_data called directly on a new visualizer,   *)
(*              over every provider response within the bounds, followed   *)
(*              by the transforms.                                         *)
(***************************************************************************)
EXTENDS Integers, Sequences, FiniteSets

(***************************************************************************)
(* Bounds of the model.                                                    *)
(***************************************************************************)
\* most vintage columns in one provider response
MaxCols == 2

(***************************************************************************)
(* Python values.                                                          *)
(***************************************************************************)
None == [kind |-> "None"]

\* A Python string held where a value of another type may be held too (a
\* date argument that may be None, a time point's date).
Str(s) == [kind |-> "str", value |-> s]

\* A table cell is NaN (absent) or one number n, written Num(n).
NaN == <<>>
Num(n) == <<n>>
notna(c) == c # NaN
isna(c) == c = NaN

\* The numbers a provider reports in a cell.
Values == {1, 2}
Cells == {NaN} \cup {Num(v) : v \in Values}

(***************************************************************************)
(* Dates.  A label is the text the provider sends or the UI shows; a date  *)
(* value (pandas Timestamp) is a day number, days since 1970-01-01.        *)
(***************************************************************************)
Calendar ==
  << [label |-> "2014-02-28", day |-> 16129],
     [label |-> "2014-03-01", day |-> 16130],
     [label |-> "2014-04-01", day |-> 16161],
     [label |-> "2021-01-01", day |-> 18628],
     [label |-> "2021-02-01", day |-> 18659],
     [label |-> "2021-03-01", day |-> 18687] >>

CalendarLabels == {Calendar[i].label : i \in DOMAIN Calendar}

\* A text pd.to_datetime cannot parse.
BadLabel == "n/a"

\* Labels the provider may use for observation dates and for vintage dates.
ObsLabels == {"2014-02-28", "2014-03-01", "2014-04-01"}
VintageLabels == {"2021-01-01", "2021-02-01", "2021-03-01"}

\* A response holds at most two of the three observation dates.
MaxRows == Cardinality(ObsLabels) - 1

\* pd.to_datetime of one label: its date value.  It raises on a text that is
\* no date (Parseable is the condition under which it returns).
Parseable(label) == label \in CalendarLabels
to_datetime(label) ==
  Calendar[CHOOSE i \in DOMAIN Calendar : Calendar[i].label = label].day

\* strftime('%Y-%m-%d') / astype(str) of one date value: its text.
strftime(day) ==
  Calendar[CHOOSE i \in DOMAIN Calendar : Calendar[i].day = day].label

\* pd.to_datetime of an axis: each label parsed, order kept.
to_datetime_index(labels) == [i \in DOMAIN labels |-> to_datetime(labels[i])]

\* DatetimeIndex.strftime('%Y-%m-%d') / astype(str): each date as text.
strftime_index(days) == [i \in DOMAIN days |-> strftime(days[i])]

\* The slice bound of .loc['2014-03-01':] in fetch_vintages_data.
CutoffLabel == "2014-03-01"

(***************************************************************************)
(* Sequences.                                                              *)
(***************************************************************************)
Range(s) == {s[i] : i \in DOMAIN s}

\* Sequences of distinct elements of S, of length at most n.
DistinctSeqs(S, n) ==
  UNION {{s \in [1..k -> S] : \A i, j \in 1..k : s[i] = s[j] => i = j} : k \in 0..n}

(***************************************************************************)
(* Data frames: index and columns are the row and column labels in stored  *)
(* order; data[i][j] is the cell of row i, column j.                       *)
(***************************************************************************)
Frame(index, columns, data) ==
  [kind |-> "DataFrame", index |-> index, columns |-> columns, data |-> data]

NRows(df) == Len(df.index)
NCols(df) == Len(df.columns)

\* The position that a stable ascending sort gives to element i of keys.
Rank(keys, i) ==
  1 + Cardinality({j \in DOMAIN keys :
                     keys[j] < keys[i] \/ (keys[j] = keys[i] /\ j < i)})

\* argsort(keys)[p] is the position in keys of the p-th smallest key.
argsort(keys) ==
  [p \in DOMAIN keys |-> CHOOSE i \in DOMAIN keys : Rank(keys, i) = p]

\* df.sort_index(ascending=True, axis=axis)
sort_index(df, axis) ==
  IF axis = 0
  THEN LET perm == argsort(df.index)
       IN Frame([p \in DOMAIN df.index |-> df.index[perm[p]]],
                df.columns,
                [p \in DOMAIN df.index |-> df.data[perm[p]]])
  ELSE LET perm == argsort(df.columns)
       IN Frame(df.index,
                [p \in DOMAIN df.columns |-> df.columns[perm[p]]],
                [i \in DOMAIN df.index |->
                   [p \in DOMAIN df.columns |-> df.data[i][perm[p]]]])


\* SliceStart with the bound excluded: the slice starts after the cutoff day.
SliceStartExclusive(index, day) ==
  IF \E p \in DOMAIN index : index[p] > day
  THEN CHOOSE p \in DOMAIN index :
         /\ index[p] > day
         /\ \A q \in DOMAIN index : index[q] > day => p <= q
  ELSE Len(index) + 1

\* The first position of a sorted index whose date is on or after day
\* (one past the end if there is none).
SliceStart(index, day) ==
  IF \E p \in DOMAIN index : index[p] >= day
  THEN CHOOSE p \in DOMAIN index :
         /\ index[p] >= day
         /\ \A q \in DOMAIN index : index[q] >= day => p <= q
  ELSE Len(index) + 1

\* df.loc[label:] on a frame whose date index is sorted ascending.
loc_from(df, label) ==
  LET start == SliceStart(df.index, to_datetime(label))
  IN Frame(SubSeq(df.index, start, NRows(df)),
           df.columns,
           SubSeq(df.data, start, NRows(df)))

(***************************************************************************)
(* The data provider (ceic_client).  A call raises or returns a response.  *)
(***************************************************************************)
Raise == [kind |-> "raise"]
Return(v) == [kind |-> "return", value |-> v]
NoResult == [kind |-> "none"]

\* series_vintages_as_dict: a mapping vintage date -> (observation date ->
\* value), held as its column labels and row labels in the mapping's order
\* and its cells (a date the mapping has no value for is NaN in the frame
\* pd.DataFrame builds).  The empty mapping has no columns and no rows.
Matrices(r, c) == [1..r -> [1..c -> Cells]]

Mapping(index, columns, data) ==
  [kind |-> "dict", index |-> index, columns |-> columns, data |-> data]

EmptyMapping == Mapping(<<>>, <<>>, <<>>)

WellFormedResponses ==
  {EmptyMapping}
  \cup UNION { UNION { {Mapping(idx, cols, m) : m \in Matrices(Len(idx), Len(cols))} :
                         idx \in DistinctSeqs(ObsLabels, MaxRows) } :
               cols \in DistinctSeqs(VintageLabels, MaxCols) \ {<<>>} }

\* Responses with a label that is no date.
MalformedResponses ==
  { Mapping(<<BadLabel>>, <<"2021-01-01">>, <<<<Num(1)>>>>),
    Mapping(<<"2014-04-01">>, <<BadLabel>>, <<<<Num(1)>>>>),
    Mapping(<<"2014-04-01", BadLabel>>, <<"2021-01-01">>, <<<<Num(1)>>, <<Num(2)>>>>) }

VintagesResponses == WellFormedResponses \cup MalformedResponses

\* pd.DataFrame(data): the outer keys become the columns, the inner keys the
\* index.
DataFrame(data) == Frame(data.index, data.columns, data.data)

(***************************************************************************)
(* SeriesVisualizer.fetch_vintages_data, lines 53-56: the frame assigned   *)
(* to df_reversed when no statement of the try block raises.               *)
(***************************************************************************)
VintagesRaises(outcome) ==
  \/ outcome.kind = "raise"
  \/ \E l \in Range(outcome.value.index) : ~Parseable(l)
  \/ \E l \in Range(outcome.value.columns) : ~Parseable(l)

BuildRevisionTable(data) ==
  LET df0 == DataFrame(data)
      df1 == Frame(to_datetime_index(df0.index), df0.columns, df0.data)
      df2 == Frame(df1.index, to_datetime_index(df1.columns), df1.data)
  IN loc_from(sort_index(df2, 0), CutoffLabel)

\* The value fetch_vintages_data leaves in df_reversed.
VintagesSlot(outcome) ==
  IF VintagesRaises(outcome) THEN None ELSE BuildRevisionTable(outcome.value)

(***************************************************************************)
(* fetch_metadata and fetch_series_data: result.data[0] raises IndexError  *)
(* on a response with no data.                                             *)
(***************************************************************************)
\* series_metadata responses: result.data is a list of series.
MetadataResponses ==
  { [data |-> <<>>],
    [data |-> <<[metadata |-> [id |-> "SR1", name |-> "GDP",
                               country |-> [name |-> "China"]]]>>],
    [data |-> <<[metadata |-> [id |-> "SR1", name |-> "GDP", country |-> None]],
                [metadata |-> [id |-> "SR2", name |-> "CPI", country |-> None]]>>] }

\* A datetime.date, as the provider's time-point objects carry it.
date(day) == [kind |-> "date", day |-> day]

\* The dates a time point may be at: the observation dates of the calendar.
PointDates == {date(to_datetime(l)) : l \in ObsLabels} \cup {Str(l) : l \in ObsLabels}

\* A time point: an object with attributes date (a datetime.date) and
\* value, or a dict with keys 'date' (a text in ISO format) and 'value'.
TimePoint(style, d, v) == [style |-> style, date |-> d, value |-> v]
TimePoints(style) ==
  {TimePoint(style, d, v) : d \in {x \in PointDates :
                                     x.kind = IF style = "attr" THEN "date" ELSE "str"},
                           v \in Values}

\* A series holds at most MaxPoints time points.
MaxPoints == 2

\* time_points as the provider gives it: a list of points, or a mapping
\* whose keys are the positions 1..n and whose values are the points, in
\* insertion order.  The points of one collection are of one style.
ListOf(points) == [kind |-> "list", items |-> points]
DictOf(points) == [kind |-> "dict", keys |-> [i \in DOMAIN points |-> i], values |-> points]
TimePointCollections ==
  UNION {UNION {{ListOf(pts), DictOf(pts)} : pts \in [1..n -> TimePoints(style)]} :
           style \in {"attr", "key"}, n \in 0..MaxPoints}

\* series_data responses: result.data is a list of series with time points.
AllSeriesResponses ==
  {[data |-> <<>>]} \cup {[data |-> <<[time_points |-> c]>>] : c \in TimePointCollections}

\* The series_data responses the threaded fetch is run against: no series,
\* and a series of two points that arrive latest first.
SeriesResponses ==
  { [data |-> <<>>],
    [data |-> <<[time_points |->
                   ListOf(<<TimePoint("attr", date(to_datetime("2014-04-01")), 2),
                            TimePoint("attr", date(to_datetime("2014-03-01")), 1)>>)]>>] }

MetadataRaises(outcome) ==
  outcome.kind = "raise" \/ Len(outcome.value.data) = 0

\* The value fetch_metadata leaves in metadata.
MetadataSlot(outcome) ==
  IF MetadataRaises(outcome) THEN None ELSE outcome.value.data[1].metadata

SeriesRaises(outcome) ==
  outcome.kind = "raise" \/ Len(outcome.value.data) = 0

\* The value fetch_series_data leaves in series_data.
SeriesSlot(outcome) ==
  IF SeriesRaises(outcome) THEN None ELSE outcome.value.data[1]

\* The vintages responses the threaded fetch is run against: the empty
\* mapping, a mapping with a label that is no date, and a two-by-two mapping
\* in descending order with a row before the cutoff, and a mapping of one
\* value at other dates.
SampleVintagesResponses ==
  { EmptyMapping,
    Mapping(<<"2014-04-01">>, <<BadLabel>>, <<<<Num(1)>>>>),
    Mapping(<<"2014-03-01">>, <<"2021-03-01">>, <<<<Num(2)>>>>),
    Mapping(<<"2014-04-01", "2014-02-28">>, <<"2021-02-01", "2021-01-01">>,
          <<<<Num(2), Num(1)>>, <<Num(1), NaN>>>>) }

(***************************************************************************)
(* The transforms of the Revision Table.  Each is given the frame held in  *)
(* df_reversed (never None here: the methods return None before this).     *)
(***************************************************************************)
\* A call that ended with an exception raised to its caller.
Raised == [kind |-> "raised"]

\* What a method that hands frame data to a plotting library (sns.heatmap,
\* px.line, ax.bar) can give back: the figure fig, or, when the data has no
\* rows or no columns, an exception of the library (whether it draws a
\* zero-size input is the library's affair, so both outcomes are kept).
PlotOutcomes(df, fig) ==
  IF NRows(df) = 0 \/ NCols(df) = 0 THEN {fig, Raised} ELSE {fig}

\* The style strings of highlight_vintage_changes: '' and the Lavender one.
Untagged == ""
Changed == "background-color: #F2CEEF"


\* highlight_vintage_changes with the loop started at range(0, ...): Python's
\* values[-1] is the last value of the row.
highlight_from_first_column(values) ==
  [i \in DOMAIN values |->
     LET prev == IF i = 1 THEN values[Len(values)] ELSE values[i - 1]
     IN IF notna(values[i]) /\ (isna(prev) \/ (notna(prev) /\ values[i] # prev))
        THEN Changed
        ELSE Untagged]

\* highlight_vintage_changes without the pd.isna(values[i-1]) alternative.
highlight_ignoring_absent_predecessor(values) ==
  [i \in DOMAIN values |->
     IF /\ i \in 2..Len(values)
        /\ notna(values[i])
        /\ notna(values[i - 1]) /\ values[i] # values[i - 1]
     THEN Changed
     ELSE Untagged]

\* highlight_vintage_changes without the pd.notna(values[i]) test.
highlight_without_notna_test(values) ==
  [i \in DOMAIN values |->
     IF /\ i \in 2..Len(values)
        /\ \/ isna(values[i - 1])
           \/ (notna(values[i - 1]) /\ values[i] # values[i - 1])
     THEN Changed
     ELSE Untagged]

\* highlight_vintage_changes(row), lines 109-116.  Python's values[k] is
\* values[k + 1] here, so range(1, len(values)) is 2..Len(values).
highlight_vintage_changes(values) ==
  [i \in DOMAIN values |->
     IF /\ i \in 2..Len(values)
        /\ notna(values[i])
        /\ \/ isna(values[i - 1])
           \/ (notna(values[i - 1]) /\ values[i] # values[i - 1])
     THEN Changed
     ELSE Untagged]

\* style_vintages_table, lines 105-118: the Styler, as the frame it shows
\* and the style of every cell (.format("{:.2f}") changes the text shown
\* for a number, not the frame or the styles).
style_vintages_table(df) ==
  LET sorted == sort_index(df, 1)
      df_sorted == Frame(strftime_index(sorted.index),
                         strftime_index(sorted.columns),
                         sorted.data)
  IN [kind |-> "Styler",
      data |-> df_sorted,
      styles |-> [i \in DOMAIN df_sorted.data |->
                    highlight_vintage_changes(df_sorted.data[i])]]

\* Minus with an absent operand counted as 0 (a fillna(0) before the diff).
MinusAbsentAsZero(cur, prev) ==
  IF isna(cur) /\ isna(prev) THEN NaN
  ELSE Num((IF isna(cur) THEN 0 ELSE cur[1]) - (IF isna(prev) THEN 0 ELSE prev[1]))

\* One cell of DataFrame.diff: cur - prev, NaN if either is NaN.
Minus(cur, prev) ==
  IF isna(cur) \/ isna(prev) THEN NaN ELSE Num(cur[1] - prev[1])


\* df.diff() along the rows (axis=0) in place of axis=1.
diff_axis0(df) ==
  Frame(df.index, df.columns,
        [i \in DOMAIN df.index |->
           [j \in DOMAIN df.columns |->
              IF i = 1 THEN NaN ELSE Minus(df.data[i][j], df.data[i - 1][j])]])

\* df.diff(axis=1): each cell minus the cell one column to its left; the
\* first column has none and is NaN.
diff_axis1(df) ==
  Frame(df.index, df.columns,
        [i \in DOMAIN df.index |->
           [j \in DOMAIN df.columns |->
              IF j = 1 THEN NaN ELSE Minus(df.data[i][j], df.data[i][j - 1])]])

\* plot_vintages_heatmap, lines 124-137: the figure, as the frame handed
\* to sns.heatmap.
plot_vintages_heatmap(df) ==
  LET df_sorted == sort_index(df, 1)
      df_revision_diff == diff_axis1(df_sorted)
  IN [kind |-> "Figure",
      plot |-> "heatmap",
      data |-> Frame(strftime_index(df_revision_diff.index),
                     strftime_index(df_revision_diff.columns),
                     df_revision_diff.data)]

\* df_str[label]: the cells of the column with that label, row by row.
Column(df_str, label) ==
  LET j == CHOOSE k \in DOMAIN df_str.columns : df_str.columns[k] = label
  IN [i \in DOMAIN df_str.index |-> df_str.data[i][j]]

\* plot_vintage_comparison(date1, date2), lines 173-201: None, or the
\* figure as its two traces.
plot_vintage_comparison(df, date1, date2) ==
  LET df_str == Frame(strftime_index(df.index), strftime_index(df.columns), df.data)
      available_dates == [j \in DOMAIN df_str.columns |-> Str(df_str.columns[j])]
      defaulted == date1 = None \/ date2 = None
      d1 == IF defaulted /\ Len(available_dates) >= 2 THEN available_dates[1] ELSE date1
      d2 == IF defaulted /\ Len(available_dates) >= 2 THEN available_dates[2] ELSE date2
  IN IF defaulted /\ Len(available_dates) < 2
     THEN None
     ELSE IF d1 \notin Range(available_dates) \/ d2 \notin Range(available_dates)
     THEN None
     ELSE [kind |-> "Figure",
           plot |-> "comparison",
           x |-> df_str.index,
           name0 |-> d1.value,
           y0 |-> Column(df_str, d1.value),
           name1 |-> d2.value,
           y1 |-> Column(df_str, d2.value)]

\* The bar colours of plot_vintage_differences.
DEEP_PURPLE == "#792D82"
LAVENDER == "#F2CEEF"

\* row.dropna(): the values of a row that are present, in column order.
dropna(values) == SelectSeq(values, notna)

\* row.dropna().iloc[0] if row.dropna().size > 0 else np.nan
first_val(values) ==
  IF Len(dropna(values)) > 0 THEN dropna(values)[1] ELSE NaN

\* row.dropna().iloc[-1] if row.dropna().size > 0 else np.nan
last_val(values) ==
  IF Len(dropna(values)) > 0 THEN dropna(values)[Len(dropna(values))] ELSE NaN

\* The figure of plot_vintage_differences for the series diff (one value
\* per index entry): the bars' x and height, their width in tenths of a
\* day (10 when there are fewer than two bars) and their colours.
DifferencesFigure(diff) ==
  [kind |-> "Figure",
   plot |-> "differences",
   x |-> diff.index,
   height |-> [i \in DOMAIN diff.index |-> diff.data[i][1]],
   width_tenths |-> IF Len(diff.index) > 1
                    THEN (diff.index[2] - diff.index[1]) * 8
                    ELSE 10 * 10,
   colors |-> [i \in DOMAIN diff.index |->
                 IF notna(diff.data[i][1]) /\ diff.data[i][1][1] >= 0
                 THEN DEEP_PURPLE ELSE LAVENDER]]

\* plot_vintage_differences with first and last taken in stored column order
\* (no sort_index(axis=1) before them).
plot_vintage_differences_unsorted(df) ==
  LET diff == Frame(df.index, <<"diff">>,
                    [i \in DOMAIN df.index |->
                       <<Minus(last_val(df.data[i]), first_val(df.data[i]))>>])
  IN DifferencesFigure(sort_index(diff, 0))

\* plot_vintage_differences with the rows that have no difference dropped
\* (a dropna() on diff).
plot_vintage_differences_dropna(df) ==
  LET df_sorted == sort_index(df, 1)
      keep == SelectSeq([i \in DOMAIN df.index |-> i],
                        LAMBDA i : notna(first_val(df_sorted.data[i])))
      diff == Frame([p \in DOMAIN keep |-> df_sorted.index[keep[p]]], <<"diff">>,
                    [p \in DOMAIN keep |->
                       <<Minus(last_val(df_sorted.data[keep[p]]),
                               first_val(df_sorted.data[keep[p]]))>>])
  IN DifferencesFigure(sort_index(diff, 0))

\* plot_vintage_differences, lines 207-226: diff is held as a frame of one
\* column; its index is already made of date values, which pd.to_datetime
\* returns as they are.
plot_vintage_differences(df) ==
  LET df_sorted == sort_index(df, 1)
      diff == Frame(df_sorted.index, <<"diff">>,
                    [i \in DOMAIN df_sorted.index |->
                       <<Minus(last_val(df_sorted.data[i]),
                               first_val(df_sorted.data[i]))>>])
  IN DifferencesFigure(sort_index(diff, 0))

\* melt with the records of absent cells left out.
melt_dropna(df) ==
  LET all == [k \in 1..(NRows(df) * NCols(df)) |->
                LET i == ((k - 1) % NRows(df)) + 1
                    j == ((k - 1) \div NRows(df)) + 1
                IN [time |-> df.index[i],
                    vintage |-> strftime(df.columns[j]),
                    value |-> df.data[i][j]]]
  IN SelectSeq(all, LAMBDA rec : notna(rec.value))

\* reset_index().melt(id_vars='index', var_name='vintage',
\* value_name='value') followed by the rename and the two conversions of
\* lines 145-148: the cells of df column by column, each as a record of its
\* observation date, its vintage formatted as a label, and its value.
melt(df) ==
  [k \in 1..(NRows(df) * NCols(df)) |->
     LET i == ((k - 1) % NRows(df)) + 1
         j == ((k - 1) \div NRows(df)) + 1
     IN [time |-> df.index[i],
         vintage |-> strftime(df.columns[j]),
         value |-> df.data[i][j]]]

\* df_long['value'].min() and .max(): over the values present, NaN when
\* there is none.
value_min(df_long) ==
  LET present == {df_long[k].value[1] : k \in {n \in DOMAIN df_long : notna(df_long[n].value)}}
  IN IF present = {} THEN NaN
     ELSE Num(CHOOSE m \in present : \A n \in present : m <= n)

value_max(df_long) ==
  LET present == {df_long[k].value[1] : k \in {n \in DOMAIN df_long : notna(df_long[n].value)}}
  IN IF present = {} THEN NaN
     ELSE Num(CHOOSE m \in present : \A n \in present : n <= m)

\* plot_animated_vintages, lines 143-167.  range_y is held in twentieths,
\* the padding being (y_max - y_min) * 0.05.
plot_animated_vintages(df) ==
  LET df_sorted == sort_index(df, 1)
      df_long == melt(df_sorted)
      y_min == value_min(df_long)
      y_max == value_max(df_long)
  IN [kind |-> "Figure",
      plot |-> "animated",
      data |-> df_long,
      range_y_twentieths |->
        IF notna(y_min)
        THEN <<Num(20 * y_min[1] - (y_max[1] - y_min[1])),
               Num(20 * y_max[1] + (y_max[1] - y_min[1]))>>
        ELSE <<NaN, NaN>>,
      color |-> DEEP_PURPLE]

\* The order sorted() puts two dates in: datetime.date objects compare by
\* day, ISO-format texts compare as text, which is the order of their days.
DateKey(d) == IF d.kind = "date" THEN d.day ELSE to_datetime(d.value)

\* pd.to_datetime of one date of a time point: its date value.
to_datetime_point(d) == IF d.kind = "date" THEN d.day ELSE to_datetime(d.value)

\* list(time_points.values()) for a mapping, time_points itself for a list
as_list(time_points) ==
  IF time_points.kind = "dict" THEN time_points.values ELSE time_points.items

\* pd.DataFrame({'Date': pd.to_datetime(dates), 'Value': values})
SeriesFrame(dates, values) ==
  Frame([i \in DOMAIN dates |-> i - 1], <<"Date", "Value">>,
        [i \in DOMAIN dates |-> <<to_datetime_point(dates[i]), values[i]>>])

\* process_series_data without the sorted() call.
process_series_data_unsorted(data) ==
  IF data = None THEN None
  ELSE LET time_points == as_list(data.time_points)
       IN SeriesFrame([i \in DOMAIN time_points |-> time_points[i].date],
                      [i \in DOMAIN time_points |-> time_points[i].value])

\* process_series_data, lines 72-86, on the value of self.series_data.
\* sorted() is stable: points of equal date keep the order they came in.
process_series_data(data) ==
  IF data = None THEN None
  ELSE LET time_points == as_list(data.time_points)
           perm == argsort([i \in DOMAIN time_points |-> DateKey(time_points[i].date)])
           sorted_time_points == [p \in DOMAIN time_points |-> time_points[perm[p]]]
       IN SeriesFrame([p \in DOMAIN sorted_time_points |-> sorted_time_points[p].date],
                      [p \in DOMAIN sorted_time_points |-> sorted_time_points[p].value])

(***************************************************************************)
(* State.                                                                  *)
(***************************************************************************)
VARIABLES
  ceic_client,          \* SeriesVisualizer.ceic_client
  series_id,            \* SeriesVisualizer.series_id
  vintages_count,       \* SeriesVisualizer.vintages_count
  vintages_start_date,  \* SeriesVisualizer.vintages_start_date
  metadata,             \* SeriesVisualizer.metadata
  series_data,          \* SeriesVisualizer.series_data
  df_reversed,          \* SeriesVisualizer.df_reversed
  pc,                   \* where the caller of fetch_all_data is
  thread,               \* thread name -> where that thread is
  result,               \* thread name -> what its provider call gave
  calls,                \* thread name -> how often its provider operation was invoked
  ret,                  \* the last call made on the visualizer and its result
  serial,               \* which SeriesVisualizer object the fields above belong to
  script,               \* what the Streamlit script runner is to do: "idle" or "rerun"
  plot_calls,           \* the generation_func calls manage_plot made in the latest run
  picks,                \* how many comparison dates the user has picked so far
  session_state         \* st.session_state of the Streamlit session

vars == <<ceic_client, series_id, vintages_count, vintages_start_date,
          metadata, series_data, df_reversed, pc, thread, result, calls, ret,
          serial, script, plot_calls, picks, session_state>>

config == <<ceic_client, series_id, vintages_count, vintages_start_date>>

\* What the Streamlit session holds; the methods of one SeriesVisualizer
\* leave it alone.
\* No generation_func was called: plot_calls holds the keys manage_plot
\* called a generation_func for, and those for which that call raised.
NoPlotCalls == [called |-> {}, raised |-> {}]

app == <<serial, script, plot_calls, picks, session_state>>

\* initialize_session_state, lines 29-48, on a new session (language and
\* page_config_set concern the page only).  series_options is the dict as
\* its items in insertion order; vintage_dates holds, per series id, the
\* two entries vintage_dates_<id>_date1 and vintage_dates_<id>_date2.
InitialSessionState ==
  [logged_in |-> FALSE,
   ceic_client |-> None,
   series_id_for_viz |-> None,
   series_options |-> <<>>,
   selected_series_key |-> None,
   visualizer_object |-> None,
   plots_generated |-> FALSE,
   cached_plots |-> {},
   search_or_load_attempted |-> FALSE,
   vintage_dates |-> {},
   picked |-> None]

Threads == <<"fetch_metadata", "fetch_series_data", "fetch_vintages_data">>
ThreadNames == Range(Threads)

DefaultVintagesCount == 10000

\* SeriesVisualizer(ceic_client, series_id), as display_visualizations builds it.
Init ==
  /\ ceic_client = "client"
  /\ series_id = "SR1"
  /\ vintages_count = DefaultVintagesCount
  /\ vintages_start_date = None
  /\ metadata = None
  /\ series_data = None
  /\ df_reversed = None
  /\ pc = [at |-> "constructed", i |-> 0]
  /\ thread = [t \in ThreadNames |-> "new"]
  /\ result = [t \in ThreadNames |-> NoResult]
  /\ calls = [t \in ThreadNames |-> 0]
  /\ ret = [op |-> "none"]
  /\ serial = 1
  /\ script = "idle"
  /\ plot_calls = NoPlotCalls
  /\ picks = 0
  /\ session_state = InitialSessionState

\* No fetch is under way: the visualizer is only used from its caller.
Quiescent ==
  /\ pc.at \in {"constructed", "returned"}
  /\ \A t \in ThreadNames : thread[t] \in {"new", "done"}

(***************************************************************************)
(* fetch_vintages_data called on its own (one call, start to end).         *)
(***************************************************************************)
\* if self.vintages_start_date: None and the empty text are false.
Truthy(v) == v # None /\ v # Str("")

\* params with vintages_count always in it, and the start date added when
\* one is set.
VintagesParamsBoth(id, count, start_date) ==
  IF Truthy(start_date)
  THEN [series_id |-> id, vintages_count |-> count, vintages_start_date |-> start_date]
  ELSE [series_id |-> id, vintages_count |-> count]

\* params, lines 43-50: the keyword arguments of series_vintages_as_dict.
VintagesParams(id, count, start_date) ==
  IF Truthy(start_date)
  THEN [series_id |-> id, vintages_start_date |-> start_date]
  ELSE [series_id |-> id, vintages_count |-> count]

FetchVintagesData ==
  /\ pc.at = "constructed"
  /\ thread["fetch_vintages_data"] = "new"
  /\ \E outcome \in {Raise} \cup {Return(r) : r \in VintagesResponses} :
       /\ result' = [result EXCEPT !["fetch_vintages_data"] = outcome]
       /\ df_reversed' = VintagesSlot(outcome)
  /\ calls' = [calls EXCEPT !["fetch_vintages_data"] = @ + 1]
  /\ thread' = [thread EXCEPT !["fetch_vintages_data"] = "done"]
  /\ ret' = [op |-> "fetch_vintages_data", value |-> None,
             params |-> VintagesParams(series_id, vintages_count, vintages_start_date)]
  /\ UNCHANGED <<app, config, metadata, series_data, pc>>

\* The vintages_count and vintages_start_date a caller may construct a
\* SeriesVisualizer with; Omitted is the argument left out.
Omitted == [kind |-> "omitted"]
IntArg(n) == [kind |-> "int", value |-> n]
CountArgs == {Omitted, IntArg(5)}
StartDateArgs == {Omitted, None, Str(""), Str("2021-01-01")}

\* SeriesVisualizer(ceic_client, series_id, ...) with any of those
\* arguments, lines 15-22.
InitRequest ==
  /\ ceic_client = "client"
  /\ series_id = "SR1"
  /\ \E count \in CountArgs :
       vintages_count = IF count = Omitted THEN DefaultVintagesCount ELSE count.value
  /\ \E start_date \in StartDateArgs :
       vintages_start_date = IF start_date = Omitted THEN None ELSE start_date
  /\ metadata = None
  /\ series_data = None
  /\ df_reversed = None
  /\ pc = [at |-> "constructed", i |-> 0]
  /\ thread = [t \in ThreadNames |-> "new"]
  /\ result = [t \in ThreadNames |-> NoResult]
  /\ calls = [t \in ThreadNames |-> 0]
  /\ ret = [op |-> "none"]
  /\ serial = 1
  /\ script = "idle"
  /\ plot_calls = NoPlotCalls
  /\ picks = 0
  /\ session_state = InitialSessionState

NextRequest == FetchVintagesData

SpecRequest == InitRequest /\ [][NextRequest]_vars

\* The dates a caller may pass to plot_vintage_comparison.
DateArgs == {None, Str("2021-01-01"), Str("2021-03-01")}

\* StyleVintagesTable that sorts the columns of self.df_reversed in place
\* (sort_index(axis=1, inplace=True)) instead of sorting a copy.
StyleVintagesTableInPlace ==
  /\ Quiescent
  /\ ret' = [op |-> "style_vintages_table",
             value |-> IF df_reversed = None THEN None
                       ELSE style_vintages_table(df_reversed)]
  /\ df_reversed' = IF df_reversed = None THEN None ELSE sort_index(df_reversed, 1)
  /\ UNCHANGED <<app, config, calls, metadata, series_data, pc, thread, result>>

StyleVintagesTable ==
  /\ Quiescent
  /\ ret' = [op |-> "style_vintages_table",
             value |-> IF df_reversed = None THEN None
                       ELSE style_vintages_table(df_reversed)]
  /\ UNCHANGED <<app, config, calls, metadata, series_data, df_reversed, pc, thread, result>>

PlotVintagesHeatmap ==
  /\ Quiescent
  /\ \E value \in IF df_reversed = None THEN {None}
                  ELSE PlotOutcomes(df_reversed, plot_vintages_heatmap(df_reversed)) :
       ret' = [op |-> "plot_vintages_heatmap", value |-> value]
  /\ UNCHANGED <<app, config, calls, metadata, series_data, df_reversed, pc, thread, result>>

PlotVintageComparison ==
  /\ Quiescent
  /\ \E date1, date2 \in DateArgs :
       ret' = [op |-> "plot_vintage_comparison",
               date1 |-> date1,
               date2 |-> date2,
               value |-> IF df_reversed = None THEN None
                         ELSE plot_vintage_comparison(df_reversed, date1, date2)]
  /\ UNCHANGED <<app, config, calls, metadata, series_data, df_reversed, pc, thread, result>>

PlotVintageDifferences ==
  /\ Quiescent
  /\ \E value \in IF df_reversed = None THEN {None}
                  ELSE PlotOutcomes(df_reversed, plot_vintage_differences(df_reversed)) :
       ret' = [op |-> "plot_vintage_differences", value |-> value]
  /\ UNCHANGED <<app, config, calls, metadata, series_data, df_reversed, pc, thread, result>>

PlotAnimatedVintages ==
  /\ Quiescent
  /\ \E value \in IF df_reversed = None THEN {None}
                  ELSE PlotOutcomes(df_reversed, plot_animated_vintages(df_reversed)) :
       ret' = [op |-> "plot_animated_vintages", value |-> value]
  /\ UNCHANGED <<app, config, calls, metadata, series_data, df_reversed, pc, thread, result>>

NextTable ==
  \/ FetchVintagesData
  \/ StyleVintagesTable
  \/ PlotVintagesHeatmap
  \/ PlotVintageComparison
  \/ PlotVintageDifferences
  \/ PlotAnimatedVintages

SpecTable == Init /\ [][NextTable]_vars

(***************************************************************************)
(* fetch_all_data: three threads, started in list order, joined in list    *)
(* order.  A thread's steps are its provider call, the assignment of its   *)
(* slot, and its except clause.                                            *)
(***************************************************************************)
Outcomes(t) ==
  {Raise} \cup
  {Return(r) : r \in CASE t = "fetch_metadata" -> MetadataResponses
                       [] t = "fetch_series_data" -> SeriesResponses
                       [] OTHER -> SampleVintagesResponses}

\* Whether the statements after t's provider call raise on that outcome.
SlotRaises(t, outcome) ==
  CASE t = "fetch_metadata" -> MetadataRaises(outcome)
    [] t = "fetch_series_data" -> SeriesRaises(outcome)
    [] OTHER -> VintagesRaises(outcome)

\* SetSlot in which fetch_series_data also assigns self.metadata.
SetSlotCopyPaste(t, v) ==
  /\ metadata' = IF t \in {"fetch_metadata", "fetch_series_data"} THEN v ELSE metadata
  /\ series_data' = IF t = "fetch_series_data" THEN v ELSE series_data
  /\ df_reversed' = IF t = "fetch_vintages_data" THEN v ELSE df_reversed

\* self.<slot of t> = v
SetSlot(t, v) ==
  /\ metadata' = IF t = "fetch_metadata" THEN v ELSE metadata
  /\ series_data' = IF t = "fetch_series_data" THEN v ELSE series_data
  /\ df_reversed' = IF t = "fetch_vintages_data" THEN v ELSE df_reversed

\* display_visualizations calls fetch_all_data on the visualizer it built;
\* the three Thread objects are created.
CallFetchAllData ==
  /\ pc.at = "constructed"
  /\ \A t \in ThreadNames : thread[t] = "new"
  /\ pc' = [at |-> "start", i |-> 1]
  /\ UNCHANGED <<app, config, calls, metadata, series_data, df_reversed, thread, result, ret>>

\* for t in threads: t.start()
StartThread ==
  /\ pc.at = "start"
  /\ thread' = [thread EXCEPT ![Threads[pc.i]] = "running"]
  /\ pc' = IF pc.i < Len(Threads) THEN [at |-> "start", i |-> pc.i + 1]
           ELSE [at |-> "join", i |-> 1]
  /\ UNCHANGED <<app, config, calls, metadata, series_data, df_reversed, result, ret>>

\* result = self.ceic_client.<operation>(...), which returns or raises
ThreadCall(t) ==
  /\ thread[t] = "running"
  /\ \E outcome \in Outcomes(t) :
       /\ result' = [result EXCEPT ![t] = outcome]
       /\ thread' = [thread EXCEPT ![t] =
                       IF outcome.kind = "raise" THEN "except" ELSE "called"]
  /\ calls' = [calls EXCEPT ![t] = @ + 1]
  /\ UNCHANGED <<app, config, metadata, series_data, df_reversed, pc, ret>>

\* ThreadAssign in which fetch_series_data keeps its result only when
\* self.metadata is already there (a read of another thread's slot).
ThreadAssignReadsMetadata(t) ==
  /\ thread[t] = "called"
  /\ IF SlotRaises(t, result[t])
     THEN /\ thread' = [thread EXCEPT ![t] = "except"]
          /\ UNCHANGED <<metadata, series_data, df_reversed>>
     ELSE /\ thread' = [thread EXCEPT ![t] = "done"]
          /\ SetSlot(t, CASE t = "fetch_metadata" -> MetadataSlot(result[t])
                          [] t = "fetch_series_data" ->
                               IF metadata = None THEN None ELSE SeriesSlot(result[t])
                          [] OTHER -> VintagesSlot(result[t]))
  /\ UNCHANGED <<app, config, calls, pc, result, ret>>

\* the rest of the try block: the slot is assigned, or a statement raises
ThreadAssign(t) ==
  /\ thread[t] = "called"
  /\ IF SlotRaises(t, result[t])
     THEN /\ thread' = [thread EXCEPT ![t] = "except"]
          /\ UNCHANGED <<metadata, series_data, df_reversed>>
     ELSE /\ thread' = [thread EXCEPT ![t] = "done"]
          /\ SetSlot(t, CASE t = "fetch_metadata" -> MetadataSlot(result[t])
                          [] t = "fetch_series_data" -> SeriesSlot(result[t])
                          [] OTHER -> VintagesSlot(result[t]))
  /\ UNCHANGED <<app, config, calls, pc, result, ret>>


\* ThreadExcept with one handler for the whole fetch: every slot is cleared.
ThreadExceptClearsAll(t) ==
  /\ thread[t] = "except"
  /\ metadata' = None
  /\ series_data' = None
  /\ df_reversed' = None
  /\ thread' = [thread EXCEPT ![t] = "done"]
  /\ UNCHANGED <<app, config, calls, pc, result, ret>>

\* ThreadExcept that attempts the provider call a second time before it
\* gives up.
ThreadExceptRetries(t) ==
  /\ thread[t] = "except"
  /\ IF calls[t] < 2
     THEN /\ thread' = [thread EXCEPT ![t] = "running"]
          /\ UNCHANGED <<metadata, series_data, df_reversed>>
     ELSE /\ thread' = [thread EXCEPT ![t] = "done"]
          /\ SetSlot(t, None)
  /\ UNCHANGED <<app, config, calls, pc, result, ret>>

\* except Exception: the slot is set to None and the thread ends
ThreadExcept(t) ==
  /\ thread[t] = "except"
  /\ SetSlot(t, None)
  /\ thread' = [thread EXCEPT ![t] = "done"]
  /\ UNCHANGED <<app, config, calls, pc, result, ret>>


\* JoinThread that joins the first thread only and returns.
JoinFirstThreadOnly ==
  /\ pc.at = "join"
  /\ thread[Threads[pc.i]] = "done"
  /\ pc' = [at |-> "returned", i |-> 0]
  /\ UNCHANGED <<app, config, calls, metadata, series_data, df_reversed, thread, result, ret>>

\* for t in threads: t.join()
JoinThread ==
  /\ pc.at = "join"
  /\ thread[Threads[pc.i]] = "done"
  /\ pc' = IF pc.i < Len(Threads) THEN [at |-> "join", i |-> pc.i + 1]
           ELSE [at |-> "returned", i |-> 0]
  /\ UNCHANGED <<app, config, calls, metadata, series_data, df_reversed, thread, result, ret>>

\* display_visualizations, after fetch_all_data has returned: it reads
\* visualizer.metadata, visualizer.series_data and visualizer.df_reversed.
DisplayRead ==
  /\ pc.at = "returned"
  /\ ret' = [op |-> "display_visualizations",
             metadata |-> metadata,
             series_data |-> series_data,
             df_reversed |-> df_reversed]
  /\ UNCHANGED <<app, config, calls, metadata, series_data, df_reversed, pc, thread, result>>

(***************************************************************************)
(* fetch_series_data called on its own, and process_series_data on what    *)
(* it left in series_data.                                                 *)
(***************************************************************************)
FetchSeriesData ==
  /\ pc.at = "constructed"
  /\ thread["fetch_series_data"] = "new"
  /\ \E outcome \in {Raise} \cup {Return(r) : r \in AllSeriesResponses} :
       /\ result' = [result EXCEPT !["fetch_series_data"] = outcome]
       /\ series_data' = SeriesSlot(outcome)
  /\ calls' = [calls EXCEPT !["fetch_series_data"] = @ + 1]
  /\ thread' = [thread EXCEPT !["fetch_series_data"] = "done"]
  /\ ret' = [op |-> "fetch_series_data", value |-> None]
  /\ UNCHANGED <<app, config, metadata, df_reversed, pc>>

ProcessSeriesData ==
  /\ Quiescent
  /\ ret' = [op |-> "process_series_data", value |-> process_series_data(series_data)]
  /\ UNCHANGED <<app, config, calls, metadata, series_data, df_reversed, pc, thread, result>>

NextSeries ==
  \/ FetchSeriesData
  \/ ProcessSeriesData

SpecSeries == Init /\ [][NextSeries]_vars

Next ==
  \/ CallFetchAllData
  \/ StartThread
  \/ \E t \in ThreadNames : ThreadCall(t)
  \/ \E t \in ThreadNames : ThreadAssign(t)
  \/ \E t \in ThreadNames : ThreadExcept(t)
  \/ JoinThread
  \/ DisplayRead

Spec == Init /\ [][Next]_vars

(***************************************************************************)
(* The Streamlit application (app.py).  One action is one run of the       *)
(* script main(): the run a user gesture starts, or the run st.rerun()     *)
(* asks for.  fetch_all_data is taken in one step here: its caller sees    *)
(* the three slots only after all three threads have ended.                *)
(***************************************************************************)
\* The client object Ceic.login returns.
Client == [kind |-> "Ceic", name |-> "client"]

\* A session builds at most MaxFetches visualizers.
MaxFetches == 2

\* The user picks a comparison date at most MaxPicks times.
MaxPicks == 1

\* f"{name} (ID: {series_id})", as the pair it is formatted from.
Label(name, id) == <<name, id>>

\* What the user may type as a series id: a text of the accepted format
\* (digits, or starting with SR) and one that is not.
IdInputs == {[text |-> "SR1", well_formed |-> TRUE], [text |-> "?", well_formed |-> FALSE]}

\* ceic_client.search(...) results: a list of pages of series.
SearchResponses ==
  { <<>>,
    <<[data |-> [items |-> <<>>]]>>,
    <<[data |-> [items |-> <<[metadata |-> [id |-> "SR1", name |-> "GDP"]],
                             [metadata |-> [id |-> "SR2", name |-> "CPI"]]>>]]>> }

\* Cleared that leaves selected_series_key as it was.
ClearedKeepingKey(ss) ==
  [ss EXCEPT !.series_options = <<>>,
             !.series_id_for_viz = None]

\* series_options = {}; series_id_for_viz = None; selected_series_key = None
Cleared(ss) ==
  [ss EXCEPT !.series_options = <<>>,
             !.series_id_for_viz = None,
             !.selected_series_key = None]

\* series_options[label] = series_id on a dict kept in insertion order
DictSet(options, label, id) ==
  IF \E k \in DOMAIN options : options[k].label = label
  THEN [k \in DOMAIN options |->
          IF options[k].label = label THEN [label |-> label, id |-> id] ELSE options[k]]
  ELSE Append(options, [label |-> label, id |-> id])

\* load_series_by_id, lines 144-192, on the outcome of series_metadata.
load_series_by_id(ss, series_id_str, outcome) ==
  IF ~series_id_str.well_formed THEN Cleared(ss)
  ELSE IF ss.ceic_client = None THEN ss
  ELSE IF outcome.kind = "raise" THEN Cleared(ss)
  ELSE IF Len(outcome.value.data) = 0 THEN Cleared(ss)
  ELSE LET series_info == outcome.value.data[1]
       IN IF "metadata" \in DOMAIN series_info /\ "id" \in DOMAIN series_info.metadata
          THEN LET id == series_info.metadata.id
                   name == IF "name" \in DOMAIN series_info.metadata
                           THEN series_info.metadata.name ELSE "Unnamed Series"
               IN [ss EXCEPT !.series_options = <<[label |-> Label(name, id), id |-> id]>>,
                             !.series_id_for_viz = Str(id),
                             !.selected_series_key = Str(Label(name, id)),
                             !.search_or_load_attempted = FALSE]
          ELSE Cleared(ss)

\* The series of the pages of a search result, page after page.
RECURSIVE PageItems(_)
PageItems(pages) ==
  IF pages = <<>> THEN <<>>
  ELSE (IF "data" \in DOMAIN Head(pages) /\ "items" \in DOMAIN Head(pages).data
        THEN Head(pages).data.items ELSE <<>>) \o PageItems(Tail(pages))

\* The loop of lines 236-243 over those series, onto the dict options.
RECURSIVE CollectOptions(_, _)
CollectOptions(items, options) ==
  IF items = <<>> THEN options
  ELSE LET series == Head(items)
       IN CollectOptions(Tail(items),
            IF /\ "metadata" \in DOMAIN series
               /\ "name" \in DOMAIN series.metadata
               /\ "id" \in DOMAIN series.metadata
            THEN DictSet(options, Label(series.metadata.name, series.metadata.id),
                         series.metadata.id)
            ELSE options)

\* search_series, lines 195-256, with a keyword and the three filters given
\* (the button is disabled otherwise), on the outcome of search.
search_series(ss, outcome) ==
  IF ss.ceic_client = None THEN ss
  ELSE IF outcome.kind = "raise" THEN Cleared(ss)
  ELSE LET series_options == CollectOptions(PageItems(outcome.value), <<>>)
       IN IF series_options # <<>>
          THEN [Cleared(ss) EXCEPT !.series_options = series_options,
                                   !.series_id_for_viz = Str(series_options[1].id),
                                   !.selected_series_key = Str(series_options[1].label),
                                   !.search_or_load_attempted = FALSE]
          ELSE Cleared(ss)

\* list(series_options.keys())
OptionKeys(options) == [k \in DOMAIN options |-> Str(options[k].label)]

\* series_options[key]
OptionId(options, key) ==
  options[CHOOSE k \in DOMAIN options : Str(options[k].label) = key].id

\* display_series_selection, lines 259-299.  choice is what the user picked
\* in the selectbox, None when they left it alone (the selectbox then
\* gives the option at default_index).  rerun: st.rerun() was called.
display_series_selection(ss, choice) ==
  IF ss.series_options # <<>>
  THEN LET options_keys == OptionKeys(ss.series_options)
           s1 == IF ss.selected_series_key \in Range(options_keys) THEN ss
                 ELSE [ss EXCEPT !.selected_series_key = options_keys[1],
                                 !.series_id_for_viz = Str(ss.series_options[1].id)]
           selected_key == IF choice \in Range(options_keys) THEN choice
                           ELSE s1.selected_series_key
       IN IF selected_key # s1.selected_series_key
          THEN [state |-> [s1 EXCEPT !.series_id_for_viz =
                                       Str(OptionId(s1.series_options, selected_key)),
                                     !.selected_series_key = selected_key,
                                     !.visualizer_object = None,
                                     !.plots_generated = FALSE,
                                     !.cached_plots = {}],
                rerun |-> TRUE]
          ELSE [state |-> s1, rerun |-> FALSE]
  ELSE [state |-> [ss EXCEPT !.series_id_for_viz = None, !.selected_series_key = None],
        rerun |-> FALSE]

\* The keys of cached_plots: a fixed name, or the comparison's name with
\* its two dates (f'vintage_comparison_plot_{date1}_{date2}').
PlotKey(name) == [name |-> name]
ComparisonKey(date1, date2) ==
  [name |-> "vintage_comparison_plot", date1 |-> date1, date2 |-> date2]

\* cached_plots[plot_key] = plot_obj; the entry also tells which
\* visualizer (owner, its serial) the plot was generated from.
CacheSet(cached_plots, plot_key, plot_obj, owner) ==
  {e \in cached_plots : e.key # plot_key}
    \cup {[key |-> plot_key, value |-> plot_obj, visualizer |-> owner]}

\* manage_plot that calls generation_func again for a key cached as None.
manage_plot_retrying(cached_plots, force_reload, plot_key, generated, owner) ==
  IF \/ force_reload
     \/ plot_key \notin {e.key : e \in cached_plots}
     \/ \E e \in cached_plots : e.key = plot_key /\ e.value = None
  THEN [cached_plots |-> CacheSet(cached_plots, plot_key,
                                  IF generated = Raised THEN None ELSE generated,
                                  owner),
        called |-> TRUE]
  ELSE [cached_plots |-> cached_plots, called |-> FALSE]

\* manage_plot, lines 354-366, as what it does to cached_plots: generated
\* is what generation_func gives when it is called (Raised: an exception);
\* called tells whether it was called.
manage_plot(cached_plots, force_reload, plot_key, generated, owner) ==
  IF force_reload \/ plot_key \notin {e.key : e \in cached_plots}
  THEN [cached_plots |-> CacheSet(cached_plots, plot_key,
                                  IF generated = Raised THEN None ELSE generated,
                                  owner),
        called |-> TRUE]
  ELSE [cached_plots |-> cached_plots, called |-> FALSE]

\* The calls of manage_plot that display_visualizations makes one after
\* the other, plots being their keys and what their generation_func gives:
\* so_far and what is returned hold the cache and, as in plot_calls, the
\* keys of the calls of generation_func made and of those that raised.
RECURSIVE ManagePlots(_, _, _, _)
ManagePlots(so_far, force_reload, plots, owner) ==
  IF plots = <<>> THEN so_far
  ELSE LET plot == Head(plots)
           managed == manage_plot(so_far.cached_plots, force_reload,
                                  plot.key, plot.generated, owner)
       IN ManagePlots(
            [cached_plots |-> managed.cached_plots,
             called |-> so_far.called \cup (IF managed.called THEN {plot.key} ELSE {}),
             raised |-> so_far.raised \cup
                          (IF managed.called /\ plot.generated = Raised
                           THEN {plot.key} ELSE {})],
            force_reload, Tail(plots), owner)

\* plot_series, lines 88-99: the line of df with its title.
plot_series(md, df) ==
  [kind |-> "Figure",
   plot |-> "series",
   x |-> [i \in DOMAIN df.data |-> df.data[i][1]],
   y |-> [i \in DOMAIN df.data |-> df.data[i][2]],
   country |-> IF md.country # None /\ "name" \in DOMAIN md.country
               THEN md.country.name ELSE "N/A",
   name |-> IF "name" \in DOMAIN md THEN md.name ELSE "N/A"]

\* The two entries vintage_dates_<id>_date1/2 of the session, as lines
\* 412-415 leave them: kept when present, else the first two dates.
DateEntry(ss, id, available_dates) ==
  IF \E e \in ss.vintage_dates : e.series_id = id
  THEN CHOOSE e \in ss.vintage_dates : e.series_id = id
  ELSE [series_id |-> id,
        date1 |-> IF Len(available_dates) > 0 THEN available_dates[1] ELSE None,
        date2 |-> IF Len(available_dates) > 1 THEN available_dates[2] ELSE None]

\* What a date selectbox gives: the date the user has just picked in it,
\* else the current date when it is an option, else the first option
\* (None without options).
DateBox(available_dates, current, picked, box) ==
  IF Len(available_dates) = 0 THEN None
  ELSE IF picked # None /\ picked.box = box /\ picked.value \in Range(available_dates)
  THEN picked.value
  ELSE IF current \in Range(available_dates) THEN current
  ELSE available_dates[1]

\* lines 404, 423-450: entry as the two selectboxes leave it, the first
\* that gives another date than the current one being the only one read.
Selected(entry, available_dates, picked) ==
  IF DateBox(available_dates, entry.date1, picked, 1) # entry.date1
  THEN [entry EXCEPT !.date1 = DateBox(available_dates, entry.date1, picked, 1)]
  ELSE IF DateBox(available_dates, entry.date2, picked, 2) # entry.date2
  THEN [entry EXCEPT !.date2 = DateBox(available_dates, entry.date2, picked, 2)]
  ELSE entry

\* lines 368-381: the series plot, made when df_series has rows.
SeriesPlots(v, df_series) ==
  IF v.series_data # None /\ df_series # None /\ NRows(df_series) > 0
  THEN <<[key |-> PlotKey("series_plot"),
          generated |-> plot_series(v.metadata, df_series)]>>
  ELSE <<>>

\* lines 391-399: the heatmap and the animation, made before the dates
\* are read.
FirstPlots(gen) ==
  <<[key |-> PlotKey("heatmap_plot"), generated |-> gen.heatmap],
    [key |-> PlotKey("animated_vintages_plot"), generated |-> gen.animated]>>

\* lines 453-470: the comparison of the two dates and the differences,
\* made when no selectbox asked for a rerun.
LastPlots(v, gen, entry) ==
  <<[key |-> ComparisonKey(entry.date1, entry.date2),
     generated |-> plot_vintage_comparison(v.df_reversed, entry.date1, entry.date2)],
    [key |-> PlotKey("vintage_differences_plot"), generated |-> gen.differences]>>

\* What a call of display_visualizations that made the plots leaves: done
\* is what ManagePlots gives, rerun whether the call ended in st.rerun(),
\* before plots_generated is set.  cached_plots is the dict of the
\* session, changed in place.
Displayed(ss, done, vintage_dates, rerun) ==
  [state |-> [ss EXCEPT !.cached_plots = done.cached_plots,
                        !.vintage_dates = vintage_dates,
                        !.plots_generated = IF rerun THEN ss.plots_generated ELSE TRUE,
                        !.picked = None],
   rerun |-> rerun,
   calls |-> [called |-> done.called, raised |-> done.raised]]

\* lines 383-470, the dates of the session being entry and the
\* selectboxes leaving them as selected.
DisplayVintages(ss, force_reload, v, gen, series_plots, entry, selected) ==
  Displayed(ss,
            ManagePlots([cached_plots |-> ss.cached_plots, called |-> {}, raised |-> {}],
                        force_reload,
                        IF selected # entry
                        THEN series_plots \o FirstPlots(gen)
                        ELSE series_plots \o FirstPlots(gen) \o LastPlots(v, gen, entry),
                        ss.visualizer_object.serial),
            {e \in ss.vintage_dates : e.series_id # entry.series_id} \cup {selected},
            selected # entry)

\* lines 368-476 with the series plot to make.
DisplayPlots(ss, force_reload, v, gen, series_plots, available_dates) ==
  IF v.df_reversed = None
  THEN Displayed(ss,
                 ManagePlots([cached_plots |-> ss.cached_plots,
                              called |-> {}, raised |-> {}],
                             force_reload, series_plots, ss.visualizer_object.serial),
                 ss.vintage_dates, FALSE)
  ELSE DisplayVintages(ss, force_reload, v, gen, series_plots,
                       DateEntry(ss, ss.series_id_for_viz.value, available_dates),
                       Selected(DateEntry(ss, ss.series_id_for_viz.value, available_dates),
                                available_dates, ss.picked))

\* display_visualizations from line 327 on, with the visualizer v in hand
\* and gen the results of the plotting calls: the session it leaves
\* (state), whether it ended in st.rerun() (rerun) and the
\* generation_func calls made, as in plot_calls (calls).
render(ss, force_reload, v, gen) ==
  IF v.metadata = None
  THEN [state |-> [ss EXCEPT !.plots_generated = FALSE], rerun |-> FALSE,
        calls |-> NoPlotCalls]
  ELSE DisplayPlots(ss, force_reload, v, gen,
                    SeriesPlots(v, process_series_data(v.series_data)),
                    IF v.df_reversed = None THEN <<>>
                    ELSE [j \in DOMAIN v.df_reversed.columns |->
                            Str(strftime(v.df_reversed.columns[j]))])

\* What the three plotting calls on the frame df can give.
Generated(df) ==
  IF df = None THEN {[heatmap |-> None, animated |-> None, differences |-> None]}
  ELSE {[heatmap |-> h, animated |-> a, differences |-> d] :
          h \in PlotOutcomes(df, plot_vintages_heatmap(df)),
          a \in PlotOutcomes(df, plot_animated_vintages(df)),
          d \in PlotOutcomes(df, plot_vintage_differences(df))}

\* The rest of display_visualizations on the visualizer with the slots md,
\* sd and df; the script is run again when it ended in st.rerun().
Rendered(ss, force_reload, md, sd, df) ==
  \E gen \in Generated(df) :
    \E r \in {render(ss, force_reload,
                     [metadata |-> md, series_data |-> sd, df_reversed |-> df], gen)} :
       /\ session_state' = r.state
       /\ script' = IF r.rerun THEN "rerun" ELSE "idle"
       /\ plot_calls' = r.calls

\* fetch_all_data with an extra rule: a failed vintages fetch keeps the
\* table the previous visualizer held.
FetchAllDataKeepingTable(m, d, v) ==
  /\ metadata' = MetadataSlot(m)
  /\ series_data' = SeriesSlot(d)
  /\ df_reversed' = IF VintagesSlot(v) = None THEN df_reversed ELSE VintagesSlot(v)
  /\ result' = [fetch_metadata |-> m, fetch_series_data |-> d, fetch_vintages_data |-> v]
  /\ calls' = [t \in ThreadNames |-> 1]
  /\ thread' = [t \in ThreadNames |-> "done"]
  /\ pc' = [at |-> "returned", i |-> 0]

\* current_visualizer.fetch_all_data() on a new visualizer, the three
\* provider calls giving m, d and v: what it has left when it returns.
FetchAllData(m, d, v) ==
  /\ metadata' = MetadataSlot(m)
  /\ series_data' = SeriesSlot(d)
  /\ df_reversed' = VintagesSlot(v)
  /\ result' = [fetch_metadata |-> m, fetch_series_data |-> d, fetch_vintages_data |-> v]
  /\ calls' = [t \in ThreadNames |-> 1]
  /\ thread' = [t \in ThreadNames |-> "done"]
  /\ pc' = [at |-> "returned", i |-> 0]

\* NeedsFetch without the comparison of the two series ids.
NeedsFetchIgnoringId(ss, force_reload) ==
  \/ force_reload
  \/ ss.visualizer_object = None

\* NeedsFetch that lets every call of display_visualizations fetch.
NeedsFetchAlways(ss, force_reload) == TRUE

\* line 317: force_reload or visualizer is None or
\* visualizer.series_id != series_id_to_visualize
NeedsFetch(ss, force_reload) ==
  \/ force_reload
  \/ ss.visualizer_object = None
  \/ series_id # ss.series_id_for_viz.value

\* Lines 319-325 that forget to empty cached_plots.
RefetchedKeepingPlots(ss) ==
  [ss EXCEPT !.visualizer_object = [kind |-> "SeriesVisualizer", serial |-> serial + 1],
             !.plots_generated = FALSE]

\* lines 319-325: the new visualizer is put in the session, and
\* cached_plots and plots_generated start anew.
Refetched(ss) ==
  [ss EXCEPT !.visualizer_object = [kind |-> "SeriesVisualizer", serial |-> serial + 1],
             !.cached_plots = {},
             !.plots_generated = FALSE]

\* display_visualizations(force_reload), lines 301-478, called with the
\* session state ss.
DisplayVisualizations(ss, force_reload) ==
  IF ss.series_id_for_viz = None \/ ss.ceic_client = None
  THEN /\ session_state' = [ss EXCEPT !.plots_generated = FALSE]
       /\ script' = "idle"
       /\ plot_calls' = NoPlotCalls
       /\ UNCHANGED <<serial, config, metadata, series_data, df_reversed,
                      pc, thread, result, calls>>
  ELSE IF NeedsFetch(ss, force_reload)
  THEN /\ serial < MaxFetches
       /\ serial' = serial + 1
       /\ ceic_client' = ss.ceic_client.name
       /\ series_id' = ss.series_id_for_viz.value
       /\ vintages_count' = DefaultVintagesCount
       /\ vintages_start_date' = None
       /\ \E m \in Outcomes("fetch_metadata"), d \in Outcomes("fetch_series_data"),
             v \in Outcomes("fetch_vintages_data") : FetchAllData(m, d, v)
       /\ Rendered(Refetched(ss), force_reload, metadata', series_data', df_reversed')
  ELSE /\ Rendered(ss, force_reload, metadata, series_data, df_reversed)
       /\ UNCHANGED <<serial, config, metadata, series_data, df_reversed,
                      pc, thread, result, calls>>

\* main_app from line 603 on, in a run where no sidebar button was
\* pressed: choice is the selectbox, load_data_button the last button.
MainAppBody(ss, choice, load_data_button) ==
  LET selection == display_series_selection(ss, choice)
  IN IF selection.rerun
     THEN /\ session_state' = selection.state
          /\ script' = "rerun"
          /\ plot_calls' = NoPlotCalls
          /\ UNCHANGED <<serial, config, metadata, series_data, df_reversed,
                         pc, thread, result, calls>>
     ELSE IF load_data_button
     THEN DisplayVisualizations(selection.state, TRUE)
     ELSE IF selection.state.plots_generated /\ selection.state.visualizer_object # None
     THEN DisplayVisualizations(selection.state, FALSE)
     ELSE /\ session_state' = selection.state
          /\ script' = "idle"
          /\ plot_calls' = NoPlotCalls
          /\ UNCHANGED <<serial, config, metadata, series_data, df_reversed,
                         pc, thread, result, calls>>

\* login_page that marks the session as logged in before Ceic.login returns.
login_page_logged_in_first(ss, given, outcome) ==
  IF ~given THEN ss
  ELSE IF outcome.kind = "raise"
  THEN [ss EXCEPT !.logged_in = TRUE, !.ceic_client = None]
  ELSE [ss EXCEPT !.logged_in = TRUE, !.ceic_client = outcome.value]

\* login_page, lines 481-509, with the Login button pressed: given tells
\* whether a username and a password were both entered, outcome is what
\* Ceic.login does when it is called.
login_page(ss, given, outcome) ==
  IF ~given THEN ss
  ELSE IF outcome.kind = "raise"
  THEN [ss EXCEPT !.logged_in = FALSE, !.ceic_client = None]
  ELSE [ss EXCEPT !.logged_in = TRUE, !.ceic_client = outcome.value]

\* main, lines 633-637, when nobody is logged in: the Login button.
Login ==
  /\ script = "idle"
  /\ ~session_state.logged_in
  /\ \E given \in BOOLEAN, outcome \in {Raise, Return(Client)} :
       /\ session_state' = login_page(session_state, given, outcome)
       /\ script' = IF given /\ outcome.kind # "raise" THEN "rerun" ELSE "idle"
       /\ ret' = [op |-> "login", given |-> given,
                  failed |-> given /\ outcome.kind = "raise",
                  login_calls |-> IF given THEN 1 ELSE 0]
  /\ plot_calls' = NoPlotCalls
  /\ UNCHANGED <<serial, config, metadata, series_data, df_reversed,
                 pc, thread, result, calls>>
  /\ UNCHANGED picks

\* main_app, lines 584-592: the Load by ID button.
LoadById ==
  /\ script = "idle"
  /\ session_state.logged_in
  /\ \E series_id_str \in IdInputs, outcome \in Outcomes("fetch_metadata") :
       LET s1 == [session_state EXCEPT !.search_or_load_attempted = TRUE]
           s2 == load_series_by_id(s1, series_id_str, outcome)
       IN /\ session_state' = [s2 EXCEPT !.visualizer_object = None,
                                        !.plots_generated = FALSE,
                                        !.cached_plots = {}]
          /\ ret' = [op |-> "load_by_id",
                     series_metadata_calls |->
                       IF series_id_str.well_formed /\ s1.ceic_client # None
                       THEN 1 ELSE 0]
  /\ script' = "rerun"
  /\ plot_calls' = NoPlotCalls
  /\ UNCHANGED <<serial, config, metadata, series_data, df_reversed,
                 pc, thread, result, calls>>
  /\ UNCHANGED picks

\* main_app, lines 594-601: the Search by Filters button.
Search ==
  /\ script = "idle"
  /\ session_state.logged_in
  /\ \E outcome \in {Raise} \cup {Return(r) : r \in SearchResponses} :
       LET s1 == [session_state EXCEPT !.search_or_load_attempted = TRUE]
           s2 == search_series(s1, outcome)
       IN session_state' = [s2 EXCEPT !.visualizer_object = None,
                                     !.plots_generated = FALSE,
                                     !.cached_plots = {}]
  /\ ret' = [op |-> "search"]
  /\ script' = "rerun"
  /\ plot_calls' = NoPlotCalls
  /\ UNCHANGED <<serial, config, metadata, series_data, df_reversed,
                 pc, thread, result, calls>>
  /\ UNCHANGED picks

\* The user picks another series in the selectbox.
SelectSeries ==
  /\ script = "idle"
  /\ session_state.logged_in
  /\ \E choice \in Range(OptionKeys(session_state.series_options)) :
       /\ choice # session_state.selected_series_key
       /\ MainAppBody(session_state, choice, FALSE)
  /\ ret' = [op |-> "select_series"]
  /\ UNCHANGED picks

\* The Load Data & Visualize button, enabled when a series is selected.
LoadDataAndVisualize ==
  /\ script = "idle"
  /\ session_state.logged_in
  /\ session_state.series_id_for_viz # None
  /\ MainAppBody(session_state, None, TRUE)
  /\ ret' = [op |-> "load_data_visualize", held |-> serial]
  /\ UNCHANGED picks

\* A run of the script with no button pressed and no selection changed:
\* the run st.rerun() asked for, or any other interaction with the page.
Rerun ==
  /\ session_state.logged_in
  /\ MainAppBody(session_state, None, FALSE)
  /\ ret' = [op |-> "rerun"]
  /\ UNCHANGED picks

\* The user picks another date in one of the two selectboxes of the
\* vintage comparison (lines 423-450), which the page shows once a table
\* with vintages has been rendered: the script runs with that value.
SelectComparisonDate ==
  /\ script = "idle"
  /\ picks < MaxPicks
  /\ picks' = picks + 1
  /\ session_state.logged_in
  /\ session_state.plots_generated
  /\ session_state.visualizer_object # None
  /\ metadata # None
  /\ df_reversed # None
  /\ \E box \in {1, 2}, j \in DOMAIN df_reversed.columns :
       LET value == Str(strftime(df_reversed.columns[j]))
           shown == {e \in session_state.vintage_dates :
                       e.series_id = session_state.series_id_for_viz.value}
       IN /\ \A e \in shown : value # (IF box = 1 THEN e.date1 ELSE e.date2)
          /\ MainAppBody([session_state EXCEPT
                            !.picked = [box |-> box, value |-> value]],
                         None, FALSE)
  /\ ret' = [op |-> "select_comparison_date"]

\* The session when the script first runs: nobody is logged in and no
\* SeriesVisualizer has been built (serial = 0; the fields are the ones
\* the first visualizer starts from).
InitApp ==
  /\ ceic_client = "client"
  /\ series_id = "SR1"
  /\ vintages_count = DefaultVintagesCount
  /\ vintages_start_date = None
  /\ metadata = None
  /\ series_data = None
  /\ df_reversed = None
  /\ pc = [at |-> "constructed", i |-> 0]
  /\ thread = [t \in ThreadNames |-> "new"]
  /\ result = [t \in ThreadNames |-> NoResult]
  /\ calls = [t \in ThreadNames |-> 0]
  /\ ret = [op |-> "none"]
  /\ serial = 0
  /\ script = "idle"
  /\ plot_calls = NoPlotCalls
  /\ picks = 0
  /\ session_state = InitialSessionState

NextApp ==
  \/ Login
  \/ LoadById
  \/ Search
  \/ SelectSeries
  \/ LoadDataAndVisualize
  \/ SelectComparisonDate
  \/ Rerun

SpecApp == InitApp /\ [][NextApp]_vars

(***************************************************************************)
(* display_visualizations on its own: called, forced or not, on a session   *)
(* of a logged-in user with two series on offer, whatever series is        *)
(* selected and whatever visualizer is held, one of another series too.    *)
(***************************************************************************)
TwoOptions ==
  <<[label |-> Label("GDP", "SR1"), id |-> "SR1"],
    [label |-> Label("CPI", "SR2"), id |-> "SR2"]>>

InitDisplay ==
  /\ ceic_client = "client"
  /\ series_id \in {"SR1", "SR2"}
  /\ vintages_count = DefaultVintagesCount
  /\ vintages_start_date = None
  /\ \E m \in Outcomes("fetch_metadata"), d \in Outcomes("fetch_series_data"),
        v \in Outcomes("fetch_vintages_data") :
       /\ result = [fetch_metadata |-> m, fetch_series_data |-> d, fetch_vintages_data |-> v]
       /\ metadata = MetadataSlot(m)
       /\ series_data = SeriesSlot(d)
       /\ df_reversed = VintagesSlot(v)
  /\ pc = [at |-> "returned", i |-> 0]
  /\ thread = [t \in ThreadNames |-> "done"]
  /\ calls = [t \in ThreadNames |-> 1]
  /\ ret = [op |-> "none"]
  /\ serial = 1
  /\ script = "idle"
  /\ plot_calls = NoPlotCalls
  /\ picks = 0
  /\ \E k \in {0} \cup DOMAIN TwoOptions, held \in BOOLEAN, generated \in BOOLEAN :
       session_state =
         [InitialSessionState EXCEPT
            !.logged_in = TRUE,
            !.ceic_client = Client,
            !.series_options = TwoOptions,
            !.series_id_for_viz = IF k = 0 THEN None ELSE Str(TwoOptions[k].id),
            !.selected_series_key = IF k = 0 THEN None ELSE Str(TwoOptions[k].label),
            !.visualizer_object = IF held THEN [kind |-> "SeriesVisualizer", serial |-> 1]
                                  ELSE None,
            !.plots_generated = generated]

\* display_visualizations(force_reload); ret keeps what the call did:
\* whether it got to render, and whether the visualizer held when it was
\* called was one of another series.
DisplayCall ==
  /\ \E force_reload \in BOOLEAN :
       /\ DisplayVisualizations(session_state, force_reload)
       /\ ret' = [op |-> "display_visualizations",
                  force_reload |-> force_reload,
                  held |-> serial,
                  mismatch |-> /\ session_state.visualizer_object # None
                               /\ session_state.series_id_for_viz # None
                               /\ series_id # session_state.series_id_for_viz.value,
                  rendered |-> /\ session_state.series_id_for_viz # None
                               /\ session_state.ceic_client # None
                               /\ metadata' # None]
  /\ UNCHANGED picks

NextDisplay == DisplayCall

SpecDisplay == InitDisplay /\ [][NextDisplay]_vars

(***************************************************************************)
(* Properties.                                                             *)
(***************************************************************************)
IsAscending(seq) == \A i, j \in DOMAIN seq : i < j => seq[i] <= seq[j]

\* What the provider returned to fetch_vintages_data (when it returned).
VintagesResponse == result["fetch_vintages_data"].value
VintagesReturned == result["fetch_vintages_data"].kind = "return"

\* The cell of a frame at a row label and a column label.
CellAt(df, rowLabel, colLabel) ==
  LET i == CHOOSE k \in DOMAIN df.index : df.index[k] = rowLabel
      j == CHOOSE k \in DOMAIN df.columns : df.columns[k] = colLabel
  IN df.data[i][j]

\* The style a Styler gives the cell at a row label and a column label.
StyleAt(styler, rowLabel, colLabel) ==
  LET i == CHOOSE k \in DOMAIN styler.data.index : styler.data.index[k] = rowLabel
      j == CHOOSE k \in DOMAIN styler.data.columns : styler.data.columns[k] = colLabel
  IN styler.styles[i][j]

\* The vintages of df_reversed, and for a vintage the one just before it.
VintagesOf(df) == Range(df.columns)
HasEarlier(df, v) == \E u \in VintagesOf(df) : u < v
Preceding(df, v) ==
  CHOOSE u \in VintagesOf(df) :
    u < v /\ \A w \in VintagesOf(df) : w < v => w <= u

Styled == ret.op = "style_vintages_table" /\ ret.value # None
Heatmapped == ret.op = "plot_vintages_heatmap" /\ ret.value.kind = "Figure"

\* C1: fetch_all_data is a join-all barrier: once it has returned to its
\* caller, and whenever the caller has read the three slots, each of the
\* three fetch threads has finished.
C1_JoinAllBarrier ==
  (pc.at = "returned" \/ ret.op = "display_visualizations")
    => \A t \in ThreadNames : thread[t] = "done"

\* C1 witness: the caller has read the slots after a fetch in which one
\* provider call raised and another returned.
C1_Witness ==
  /\ ret.op = "display_visualizations"
  /\ result["fetch_vintages_data"] = Raise
  /\ result["fetch_metadata"].kind = "return"
  /\ ret.metadata # None

\* C2: per-fetch failure isolation: when fetch_all_data has returned, the
\* slot of every fetch whose provider call raised (or whose try block raised
\* later) is None, and the slot of every fetch that went through holds what
\* was fetched, whatever the other two fetches did.
C2_FailureIsolation ==
  pc.at = "returned" =>
    LET m == result["fetch_metadata"]
        d == result["fetch_series_data"]
        v == result["fetch_vintages_data"]
    IN /\ m.kind \in {"raise", "return"}
       /\ d.kind \in {"raise", "return"}
       /\ v.kind \in {"raise", "return"}
       /\ m.kind = "raise" => metadata = None
       /\ d.kind = "raise" => series_data = None
       /\ v.kind = "raise" => df_reversed = None
       /\ (m.kind = "return" /\ m.value.data = <<>>) => metadata = None
       /\ (d.kind = "return" /\ d.value.data = <<>>) => series_data = None
       /\ (m.kind = "return" /\ m.value.data # <<>>)
            => metadata = m.value.data[1].metadata
       /\ (d.kind = "return" /\ d.value.data # <<>>)
            => series_data = d.value.data[1]
       /\ (v.kind = "return" /\ BadLabel \in Range(v.value.index) \cup Range(v.value.columns))
            => df_reversed = None
       /\ (v.kind = "return" /\ BadLabel \notin Range(v.value.index) \cup Range(v.value.columns))
            => /\ df_reversed # None
               /\ df_reversed.kind = "DataFrame"
               /\ Range(df_reversed.columns) = {to_datetime(l) : l \in Range(v.value.columns)}

\* C2 witness: fetch_all_data has returned after only the vintages call
\* raised; metadata and series_data are populated and df_reversed is None.
C2_Witness ==
  /\ pc.at = "returned"
  /\ result["fetch_vintages_data"] = Raise
  /\ result["fetch_metadata"].kind = "return"
  /\ result["fetch_series_data"].kind = "return"
  /\ metadata # None
  /\ series_data # None
  /\ df_reversed = None

\* C3: when the provider's vintages response is empty or malformed,
\* fetch_vintages_data leaves df_reversed None (never an empty table).
C3_EmptyOrMalformedIsAbsent ==
  ( /\ thread["fetch_vintages_data"] = "done"
    /\ VintagesReturned
    /\ \/ VintagesResponse = EmptyMapping
       \/ BadLabel \in Range(VintagesResponse.index) \cup Range(VintagesResponse.columns) )
    => df_reversed = None

\* C4: after a successful fetch_vintages_data both axes of df_reversed are
\* sorted ascending: the observation dates and the vintage dates.
C4_BothAxesAscending ==
  df_reversed # None
    => IsAscending(df_reversed.index) /\ IsAscending(df_reversed.columns)

\* C5: after a successful fetch_vintages_data the rows of df_reversed are
\* exactly the provider's rows dated on or after 2014-03-01, each once and
\* with the provider's values.
C5_CutoffFilter ==
  df_reversed # None =>
    LET kept == {l \in Range(VintagesResponse.index) :
                   to_datetime(l) >= to_datetime("2014-03-01")}
    IN /\ \A p \in DOMAIN df_reversed.index :
            df_reversed.index[p] >= to_datetime("2014-03-01")
       /\ Range(df_reversed.index) = {to_datetime(l) : l \in kept}
       /\ Len(df_reversed.index) = Cardinality(kept)
       /\ \A l \in kept : \A c \in Range(VintagesResponse.columns) :
            CellAt(df_reversed, to_datetime(l), to_datetime(c))
              = CellAt(VintagesResponse, l, c)

\* C5 witness: the provider sent a row dated before the cutoff and a row
\* dated on the cutoff day; only the second is in df_reversed.
C5_Witness ==
  /\ df_reversed # None
  /\ Range(VintagesResponse.index) = {"2014-02-28", "2014-03-01"}
  /\ Len(VintagesResponse.columns) >= 1
  /\ df_reversed.index = <<to_datetime("2014-03-01")>>

\* C6: plot_vintage_comparison(date1, date2) returns None whenever a label
\* that was supplied is not a column label of the table; it does not put
\* default columns in the place of the missing label.
C6_MissingLabelFails ==
  ( /\ ret.op = "plot_vintage_comparison"
    /\ df_reversed # None
    /\ \E d \in {ret.date1, ret.date2} :
         d # None /\ d.value \notin {strftime(c) : c \in Range(df_reversed.columns)} )
    => ret.value = None

\* C7: the Change Highlighter never tags the cell of the first
\* (earliest-vintage) column, in any row of any table.
C7_FirstColumnNeverTagged ==
  Styled =>
    \A i \in DOMAIN ret.value.styles : \A j \in DOMAIN ret.value.styles[i] :
      ( \/ j = 1
        \/ ~HasEarlier(df_reversed, to_datetime(ret.value.data.columns[j])) )
        => ret.value.styles[i][j] = Untagged

\* C7 witness: a styled table of two or more columns with a row whose first
\* cell holds a value that its last cell does not.
C7_Witness ==
  /\ Styled
  /\ Len(ret.value.data.columns) >= 2
  /\ \E i \in DOMAIN ret.value.data.data :
       LET row == ret.value.data.data[i]
       IN notna(row[1]) /\ row[1] # row[Len(row)]

\* C8: with the columns in ascending vintage order, every cell after the
\* first column that holds a value is tagged when the cell of the vintage
\* just before it, in the same row, is absent or holds another value.
C8_ChangedCellsTagged ==
  Styled =>
    \A r \in Range(df_reversed.index) : \A v \in VintagesOf(df_reversed) :
      HasEarlier(df_reversed, v) =>
        LET cur == CellAt(df_reversed, r, v)
            prev == CellAt(df_reversed, r, Preceding(df_reversed, v))
        IN (notna(cur) /\ (isna(prev) \/ prev # cur))
             => StyleAt(ret.value, strftime(r), strftime(v)) = Changed

\* C8 witness: a table whose provider columns came in descending order has
\* been styled, and a cell that went from absent to a value is tagged.
C8_Witness ==
  /\ Styled
  /\ ~IsAscending(df_reversed.columns)
  /\ \E r \in Range(df_reversed.index) : \E v \in VintagesOf(df_reversed) :
       /\ HasEarlier(df_reversed, v)
       /\ notna(CellAt(df_reversed, r, v))
       /\ isna(CellAt(df_reversed, r, Preceding(df_reversed, v)))
       /\ StyleAt(ret.value, strftime(r), strftime(v)) = Changed

\* C9: the Change Highlighter tags nothing else: a tagged cell holds a value
\* and the cell of the vintage just before it is absent or holds another
\* value; so an absent cell is never tagged, and neither is a cell holding
\* exactly the value of the vintage before.
C9_NothingElseTagged ==
  Styled =>
    \A r \in Range(df_reversed.index) : \A v \in VintagesOf(df_reversed) :
      StyleAt(ret.value, strftime(r), strftime(v)) = Changed =>
        /\ notna(CellAt(df_reversed, r, v))
        /\ HasEarlier(df_reversed, v)
        /\ LET prev == CellAt(df_reversed, r, Preceding(df_reversed, v))
           IN isna(prev) \/ prev # CellAt(df_reversed, r, v)

\* C9 witness: a styled table with a row that goes from a value to absent
\* and a row that keeps its value; neither second cell is tagged.
C9_Witness ==
  /\ Styled
  /\ \E r1, r2 \in Range(df_reversed.index) : \E v \in VintagesOf(df_reversed) :
       /\ HasEarlier(df_reversed, v)
       /\ isna(CellAt(df_reversed, r1, v))
       /\ notna(CellAt(df_reversed, r1, Preceding(df_reversed, v)))
       /\ notna(CellAt(df_reversed, r2, v))
       /\ CellAt(df_reversed, r2, v) = CellAt(df_reversed, r2, Preceding(df_reversed, v))
       /\ StyleAt(ret.value, strftime(r1), strftime(v)) = Untagged
       /\ StyleAt(ret.value, strftime(r2), strftime(v)) = Untagged

\* C10: in the Consecutive-Vintage Difference table of plot_vintages_heatmap
\* the first (earliest-vintage) column is absent (NaN) in every row.
C10_DiffFirstColumnAbsent ==
  Heatmapped =>
    \A i \in DOMAIN ret.value.data.index : \A j \in DOMAIN ret.value.data.columns :
      ( \/ j = 1
        \/ ~HasEarlier(df_reversed, to_datetime(ret.value.data.columns[j])) )
        => ret.value.data.data[i][j] = NaN

\* C10 witness: the difference table of a table with two rows and two
\* columns, stored in descending vintage order, whose earliest-vintage
\* column holds a value in both rows.
C10_Witness ==
  /\ Heatmapped
  /\ Len(df_reversed.index) = 2
  /\ Len(df_reversed.columns) = 2
  /\ ~IsAscending(df_reversed.columns)
  /\ \A i \in DOMAIN df_reversed.index : notna(df_reversed.data[i][2])
  /\ \A i \in DOMAIN df_reversed.index : notna(df_reversed.data[i][1])

\* C11: the Consecutive-Vintage Difference table has the shape of the
\* Revision Table (its rows, and its columns in ascending vintage order), and
\* for every row and every vintage that has an earlier one the cell is the
\* value at that vintage minus the value at the vintage just before it when
\* both are present, and absent when either is absent.
C11_ConsecutiveDifference ==
  Heatmapped =>
    LET d == ret.value.data
    IN /\ d.index = strftime_index(df_reversed.index)
       /\ Len(d.columns) = Len(df_reversed.columns)
       /\ Range(d.columns) = {strftime(v) : v \in VintagesOf(df_reversed)}
       /\ \A j, k \in DOMAIN d.columns :
            j < k => to_datetime(d.columns[j]) < to_datetime(d.columns[k])
       /\ \A r \in Range(df_reversed.index) : \A v \in VintagesOf(df_reversed) :
            HasEarlier(df_reversed, v) =>
              LET cur == CellAt(df_reversed, r, v)
                  prev == CellAt(df_reversed, r, Preceding(df_reversed, v))
              IN CellAt(d, strftime(r), strftime(v))
                   = IF notna(cur) /\ notna(prev) THEN Num(cur[1] - prev[1]) ELSE NaN

\* C11 witness: the difference table of a table stored in descending vintage
\* order with a row absent then present (its difference absent) and a row
\* going from 1 to 2 (its difference 1).
C11_Witness ==
  /\ Heatmapped
  /\ ~IsAscending(df_reversed.columns)
  /\ \E r1, r2 \in Range(df_reversed.index) : \E v \in VintagesOf(df_reversed) :
       /\ HasEarlier(df_reversed, v)
       /\ isna(CellAt(df_reversed, r1, Preceding(df_reversed, v)))
       /\ notna(CellAt(df_reversed, r1, v))
       /\ CellAt(ret.value.data, strftime(r1), strftime(v)) = NaN
       /\ CellAt(df_reversed, r2, Preceding(df_reversed, v)) = Num(1)
       /\ CellAt(df_reversed, r2, v) = Num(2)
       /\ CellAt(ret.value.data, strftime(r2), strftime(v)) = Num(1)

Differenced == ret.op = "plot_vintage_differences" /\ ret.value.kind = "Figure"

\* The bar height plot_vintage_differences gives the observation date r.
HeightAt(fig, r) == fig.height[CHOOSE p \in DOMAIN fig.x : fig.x[p] = r]

\* The vintages at which row r of df holds a value.
PresentAt(df, r) == {v \in VintagesOf(df) : notna(CellAt(df, r, v))}

\* C12: First-vs-Last Difference: for every row with a value at some
\* vintage the result is the value at the latest vintage that has one minus
\* the value at the earliest vintage that has one (0 when only one cell is
\* populated); for a row with no value at all it is NaN.
C12_FirstVsLast ==
  Differenced =>
    \A r \in Range(df_reversed.index) :
      LET present == PresentAt(df_reversed, r)
      IN IF present = {}
         THEN HeightAt(ret.value, r) = NaN
         ELSE LET first == CHOOSE v \in present : \A w \in present : v <= w
                  last == CHOOSE v \in present : \A w \in present : w <= v
              IN HeightAt(ret.value, r)
                   = Num(CellAt(df_reversed, r, last)[1] - CellAt(df_reversed, r, first)[1])

\* C12 witness: on a table stored in descending vintage order, a row that
\* goes from 1 to 2 gets 1 and a row with one populated cell gets 0.
C12_Witness ==
  /\ Differenced
  /\ ~IsAscending(df_reversed.columns)
  /\ \E r1, r2 \in Range(df_reversed.index) :
       /\ Cardinality(PresentAt(df_reversed, r1)) = 2
       /\ HeightAt(ret.value, r1) = Num(1)
       /\ Cardinality(PresentAt(df_reversed, r2)) = 1
       /\ HeightAt(ret.value, r2) = Num(0)

\* C13: First-vs-Last Difference gives exactly one value per observation
\* date of the Revision Table, in ascending order of observation date.
C13_OneValuePerDate ==
  Differenced =>
    /\ Len(ret.value.x) = Len(df_reversed.index)
    /\ Len(ret.value.height) = Len(ret.value.x)
    /\ Range(ret.value.x) = Range(df_reversed.index)
    /\ \A p, q \in DOMAIN ret.value.x : p < q => ret.value.x[p] < ret.value.x[q]

\* C13 witness: the result for a table of two rows, one of which holds no
\* value at any vintage: two values, the earlier date first.
C13_Witness ==
  /\ Differenced
  /\ Len(df_reversed.index) = 2
  /\ \E r \in Range(df_reversed.index) : PresentAt(df_reversed, r) = {}
  /\ Len(ret.value.x) = 2
  /\ ret.value.x[1] < ret.value.x[2]

Animated == ret.op = "plot_animated_vintages" /\ ret.value.kind = "Figure"

\* The positions of the long-form records for observation date r and
\* vintage v.
RecordsOf(df_long, r, v) ==
  {k \in DOMAIN df_long : df_long[k].time = r /\ df_long[k].vintage = strftime(v)}

\* C14: the long form of plot_animated_vintages has rows x columns records,
\* exactly one for every cell of the Revision Table, populated or not, and
\* the value of each record is the table cell at its observation date and
\* vintage (absent cells carried as NaN).
C14_LongFormMelt ==
  Animated =>
    /\ Len(ret.value.data) = NRows(df_reversed) * NCols(df_reversed)
    /\ \A r \in Range(df_reversed.index) : \A v \in VintagesOf(df_reversed) :
         /\ Cardinality(RecordsOf(ret.value.data, r, v)) = 1
         /\ \A k \in RecordsOf(ret.value.data, r, v) :
              ret.value.data[k].value = CellAt(df_reversed, r, v)

\* C14 witness: the long form of a two by two table with an absent cell
\* and a populated one: four records, one of them null.
C14_Witness ==
  /\ Animated
  /\ NRows(df_reversed) = 2
  /\ NCols(df_reversed) = 2
  /\ Len(ret.value.data) = 4
  /\ \E k \in DOMAIN ret.value.data : isna(ret.value.data[k].value)
  /\ \E k \in DOMAIN ret.value.data : notna(ret.value.data[k].value)

\* A step of fetch_all_data: the configuration is untouched, and a result
\* slot changes only in a step of the thread that owns it, the one that
\* ends that thread.
FetchFrame ==
  /\ UNCHANGED config
  /\ metadata' # metadata =>
       thread["fetch_metadata"] # "done" /\ thread'["fetch_metadata"] = "done"
  /\ series_data' # series_data =>
       thread["fetch_series_data"] # "done" /\ thread'["fetch_series_data"] = "done"
  /\ df_reversed' # df_reversed =>
       thread["fetch_vintages_data"] # "done" /\ thread'["fetch_vintages_data"] = "done"

\* C15: fetch_all_data leaves series_id, ceic_client, vintages_count and
\* vintages_start_date unchanged, and each of the three fetches writes only
\* its own slot: metadata is written only by fetch_metadata, series_data
\* only by fetch_series_data, df_reversed only by fetch_vintages_data.
C15_OnlyOwnSlot == [][FetchFrame]_vars

\* C15 witness: fetch_all_data has returned with its three slots written
\* and the configuration as the constructor left it.
C15_Witness ==
  /\ pc.at = "returned"
  /\ metadata # None /\ series_data # None /\ df_reversed # None
  /\ series_id = "SR1" /\ ceic_client = "client"
  /\ vintages_count = DefaultVintagesCount /\ vintages_start_date = None

\* C16: within one call of fetch_all_data no provider operation is invoked
\* more than once; a thread that is past its call has invoked it exactly
\* once, whether the call returned or raised, and when fetch_all_data
\* returns each of the three operations has been invoked exactly once.
C16_NoRetries ==
  /\ \A t \in ThreadNames : calls[t] <= 1
  /\ \A t \in ThreadNames :
       thread[t] \in {"called", "except", "done"} => calls[t] = 1
  /\ pc.at = "returned" => \A t \in ThreadNames : calls[t] = 1

\* C16 witness: fetch_all_data has returned, the metadata operation raised
\* and the other two returned, each invoked once.
C16_Witness ==
  /\ pc.at = "returned"
  /\ result["fetch_metadata"].kind = "raise"
  /\ result["fetch_series_data"].kind # "raise"
  /\ result["fetch_vintages_data"].kind # "raise"
  /\ \A t \in ThreadNames : calls[t] = 1

\* Row i of df as a table of its own.
RowOnly(df, i) == Frame(<<df.index[i]>>, df.columns, <<df.data[i]>>)

\* A step that invokes no provider operation leaves df_reversed as it was,
\* and the tags style_vintages_table gives a row are the tags it gives
\* that row standing alone.
TransformFrame ==
  /\ calls' = calls => df_reversed' = df_reversed
  /\ Styled' =>
       \A i \in DOMAIN df_reversed.index :
         ret'.value.styles[i] = style_vintages_table(RowOnly(df_reversed, i)).styles[1]

\* C17: style_vintages_table, plot_vintages_heatmap, plot_animated_vintages,
\* plot_vintage_differences and plot_vintage_comparison, called in any order
\* and any number of times, leave df_reversed (values, labels and their
\* order) unchanged, and the tags of a row depend only on that row's values.
C17_TransformsPure == [][TransformFrame]_vars

\* C17 witness: a table whose columns are stored out of order has been
\* styled, two of its rows tagged differently, and it is still stored in
\* that order.
C17_Witness ==
  /\ Styled
  /\ ~IsAscending(df_reversed.columns)
  /\ NRows(df_reversed) = 2
  /\ ret.value.styles[1] # ret.value.styles[2]

Processed == ret.op = "process_series_data" /\ ret.value # None

\* The Date and the Value of row p of the frame process_series_data gave.
DateOf(df, p) == df.data[p][1]
ValueOf(df, p) == df.data[p][2]

\* The time points process_series_data was given, in provider order.
GivenPoints == as_list(series_data.time_points)

\* Each value is still with its own date: every (date, value) pair occurs
\* in the result as often as among the given points.
Paired(df, points) ==
  /\ Len(df.data) = Len(points)
  /\ \A i \in DOMAIN points :
       Cardinality({p \in DOMAIN df.data :
                      /\ DateOf(df, p) = to_datetime_point(points[i].date)
                      /\ ValueOf(df, p) = points[i].value})
         = Cardinality({k \in DOMAIN points :
                      /\ to_datetime_point(points[k].date) = to_datetime_point(points[i].date)
                      /\ points[k].value = points[i].value})

\* C18 as stated: the sequence process_series_data returns is strictly
\* increasing by date for every time-point collection, values paired.
C18_StrictlyIncreasing ==
  Processed =>
    /\ \A p, q \in DOMAIN ret.value.data :
         p < q => DateOf(ret.value, p) < DateOf(ret.value, q)
    /\ Paired(ret.value, GivenPoints)

\* C18: the sequence process_series_data returns is non-decreasing by date
\* for every time-point collection (list or mapping, attribute-style or
\* key-style points), strictly increasing when no two of its points have
\* the same date, and each value stays paired with its own date.
C18_NonDecreasing ==
  Processed =>
    /\ \A p, q \in DOMAIN ret.value.data :
         p < q => DateOf(ret.value, p) <= DateOf(ret.value, q)
    /\ (\A i, k \in DOMAIN GivenPoints :
          GivenPoints[i].date = GivenPoints[k].date => i = k)
         => \A p, q \in DOMAIN ret.value.data :
              p < q => DateOf(ret.value, p) < DateOf(ret.value, q)
    /\ Paired(ret.value, GivenPoints)

\* C18 witness: a mapping of two key-style points that arrive latest
\* first, with different values, comes back earliest first.
C18_Witness ==
  /\ Processed
  /\ series_data.time_points.kind = "dict"
  /\ Len(GivenPoints) = 2
  /\ GivenPoints[1].style = "key"
  /\ DateKey(GivenPoints[1].date) > DateKey(GivenPoints[2].date)
  /\ GivenPoints[1].value # GivenPoints[2].value
  /\ DateOf(ret.value, 1) < DateOf(ret.value, 2)
  /\ ValueOf(ret.value, 1) = GivenPoints[2].value

\* The session holds a visualizer.
Held == session_state.visualizer_object # None

\* The cell of a provider mapping at the row and column labels given.
ResponseCell(data, rowLabel, colLabel) ==
  LET i == CHOOSE k \in DOMAIN data.index : data.index[k] = rowLabel
      j == CHOOSE k \in DOMAIN data.columns : data.columns[k] = colLabel
  IN data.data[i][j]

C20_OncePerSelection ==
  [][(Held /\ session_state'.series_id_for_viz = session_state.series_id_for_viz)
       => (serial' = serial /\ metadata' = metadata)]_vars

\* A step of the application, for the metadata of the visualizers: the
\* slot of a visualizer that stays is not written and no provider operation
\* is invoked for it; a new visualizer has had its metadata operation
\* invoked once and holds what that call gave; only Load Data & Visualize
\* builds one.
MetadataStep ==
  /\ serial' = serial => (metadata' = metadata /\ calls' = calls)
  /\ serial' # serial =>
       /\ calls'["fetch_metadata"] = 1
       /\ LET o == result'["fetch_metadata"]
          IN metadata' = IF o.kind = "raise" THEN None
                         ELSE IF o.value.data = <<>> THEN None
                         ELSE o.value.data[1].metadata
       /\ session_state'.visualizer_object = [kind |-> "SeriesVisualizer", serial |-> serial']
  /\ ret'.op # "load_data_visualize" => serial' = serial

\* C20: Series Metadata is immutable once fetched and is fetched once per
\* visualizer: every Load Data & Visualize builds a new visualizer, for
\* which the metadata operation is invoked exactly once, also when the
\* selected series is the same as before; the metadata slot of a visualizer
\* is never written again, and no other run of the page fetches.
C20_OncePerVisualizer == [][MetadataStep]_vars

\* C20 witness: the second visualizer of a session, its metadata fetched
\* by one call, after a run that rendered it again without fetching.
C20_Witness ==
  /\ Held
  /\ serial = 2
  /\ ret.op = "rerun"
  /\ session_state.plots_generated
  /\ metadata # None
  /\ calls["fetch_metadata"] = 1

VintagesRequested == ret.op = "fetch_vintages_data"

\* C21: the vintages request carries exactly one of vintages_count and
\* vintages_start_date: the start date the visualizer was built with, and
\* no count, when it was built with a start date; the count it was built
\* with (10000 when none was given), and no start date, otherwise.
C21_OneSelector ==
  VintagesRequested =>
    LET params == ret.params
        has_count == "vintages_count" \in DOMAIN params
        has_start == "vintages_start_date" \in DOMAIN params
        configured == vintages_start_date # None /\ vintages_start_date.value # ""
    IN /\ has_count # has_start
       /\ params.series_id = series_id
       /\ configured => has_start /\ params.vintages_start_date = vintages_start_date
       /\ ~configured => has_count /\ params.vintages_count = vintages_count

\* C21 witness: a visualizer built with a count of 5 and the start date
\* 2021-01-01 has sent the start date alone.
C21_Witness ==
  /\ VintagesRequested
  /\ vintages_count = 5
  /\ vintages_start_date = Str("2021-01-01")
  /\ ret.params = [series_id |-> "SR1", vintages_start_date |-> Str("2021-01-01")]

\* The slot a fetch thread owns, and what that fetch leaves in it for the
\* outcome of its own provider call.
SlotOf(t) ==
  CASE t = "fetch_metadata" -> metadata
    [] t = "fetch_series_data" -> series_data
    [] OTHER -> df_reversed

OwnValue(t) ==
  CASE t = "fetch_metadata" -> MetadataSlot(result[t])
    [] t = "fetch_series_data" -> SeriesSlot(result[t])
    [] OTHER -> VintagesSlot(result[t])

\* C22: whatever the other two threads have done so far, the slot of a
\* thread that has ended holds what its own provider outcome determines,
\* and the slot of a thread that has not ended is still None: for fixed
\* outcomes the three slots after fetch_all_data are the same under every
\* interleaving, and no thread's slot depends on or is written by another.
C22_InterleavingIndependent ==
  \A t \in ThreadNames :
    /\ thread[t] = "done" => SlotOf(t) = OwnValue(t)
    /\ thread[t] # "done" => SlotOf(t) = None

\* C22 witness: the thread started last has ended with its table while the
\* first is still running and the second is in its except handler.
C22_Witness ==
  /\ pc.at = "join"
  /\ thread["fetch_vintages_data"] = "done"
  /\ df_reversed # None
  /\ thread["fetch_metadata"] = "running"
  /\ thread["fetch_series_data"] = "except"

\* C23: when display_visualizations has rendered, the visualizer it
\* rendered from is the one the session holds and its series_id is the
\* series_id_for_viz; if the visualizer held at the call was one of another
\* series, the one rendered from is a new one, built and fetched (each
\* provider operation once) in that call.
C23_RendersSelected ==
  (ret.op = "display_visualizations" /\ ret.rendered) =>
    /\ Held
    /\ session_state.visualizer_object.serial = serial
    /\ series_id = session_state.series_id_for_viz.value
    /\ ret.mismatch =>
         /\ serial = ret.held + 1
         /\ \A t \in ThreadNames : calls[t] = 1 /\ thread[t] = "done"

\* C23 witness: a call that was not forced found a visualizer of another
\* series, and has rendered series SR2 from a second visualizer.
C23_Witness ==
  /\ ret.op = "display_visualizations"
  /\ ~ret.force_reload
  /\ ret.mismatch
  /\ ret.rendered
  /\ serial = 2
  /\ series_id = "SR2"
  /\ session_state.plots_generated

\* What the visualizer held can have put in cached_plots under plot_key:
\* the plot its data gives, or None where the generation can raise.
PlotsOf(plot_key) ==
  IF plot_key = PlotKey("series_plot")
  THEN {plot_series(metadata, process_series_data(series_data))}
  ELSE IF df_reversed = None THEN {}
  ELSE IF plot_key = PlotKey("heatmap_plot")
  THEN {IF g.heatmap = Raised THEN None ELSE g.heatmap : g \in Generated(df_reversed)}
  ELSE IF plot_key = PlotKey("animated_vintages_plot")
  THEN {IF g.animated = Raised THEN None ELSE g.animated : g \in Generated(df_reversed)}
  ELSE IF plot_key = PlotKey("vintage_differences_plot")
  THEN {IF g.differences = Raised THEN None ELSE g.differences :
          g \in Generated(df_reversed)}
  ELSE {plot_vintage_comparison(df_reversed, plot_key.date1, plot_key.date2)}

\* C24: every entry of cached_plots was generated from the visualizer the
\* session holds now (it bears that visualizer's serial and is a plot of
\* that visualizer's data), so that a cache with entries goes with a held
\* visualizer; and after a load by id, a search or a selection change,
\* which clear visualizer_object, and after a refetch, which replaces it,
\* nothing of an earlier visualizer is left in cached_plots.
C24_CacheCoherent ==
  /\ \A e \in session_state.cached_plots :
       /\ Held
       /\ e.visualizer = session_state.visualizer_object.serial
       /\ e.visualizer = serial
       /\ e.value \in PlotsOf(e.key)
  /\ ret.op \in {"load_by_id", "search", "select_series"} =>
       ~Held /\ session_state.cached_plots = {}
  /\ ret.op = "load_data_visualize" =>
       \A e \in session_state.cached_plots : e.visualizer = ret.held + 1

\* The user picked another comparison date and then pressed Load Data &
\* Visualize again: the cache holds the plots of the second visualizer,
\* and no comparison of the first one.
C24_Witness ==
  /\ ret.op = "load_data_visualize"
  /\ picks = 1
  /\ serial = 2
  /\ script = "idle"
  /\ Cardinality(session_state.cached_plots) = 5
  /\ \E e \in session_state.cached_plots :
       e.key = ComparisonKey(Str("2021-01-01"), Str("2021-01-01"))
\* C25: after load_series_by_id, search_series and display_series_selection
\* have run, either series_id_for_viz and selected_series_key are both
\* None, or selected_series_key is a key of series_options and
\* series_options[selected_series_key] is series_id_for_viz; with an empty
\* series_options both are None.
C25_SelectionConsistent ==
  LET options == session_state.series_options
      key == session_state.selected_series_key
      id == session_state.series_id_for_viz
  IN /\ \/ id = None /\ key = None
        \/ /\ key \in Range(OptionKeys(options))
           /\ Str(OptionId(options, key)) = id
     /\ options = <<>> => id = None /\ key = None

\* A search found two series and the user has picked the second one.
C25_Witness ==
  /\ ret.op = "select_series"
  /\ Len(session_state.series_options) = 2
  /\ session_state.selected_series_key = Str(Label("CPI", "SR2"))
  /\ session_state.series_id_for_viz = Str("SR2")
\* The keys of cached_plots.
CachedKeys(ss) == {e.key : e \in ss.cached_plots}

\* A step of the application in which a generation_func raised ends as any
\* other call of display_visualizations does (in st.rerun() asked for by a
\* date selectbox, or with plots_generated set), with None under the
\* failing key and with the views after the failing one made as well; and
\* no step calls generation_func for a key that was cached as None, unless
\* the step built a new visualizer, which happens on a forced reload and
\* empties the cache first.
DegradesToUnavailable ==
  /\ plot_calls'.raised # {} =>
       /\ script' = "rerun" \/ session_state'.plots_generated
       /\ \A k \in plot_calls'.raised :
            \E e \in session_state'.cached_plots : e.key = k /\ e.value = None
       /\ {PlotKey("heatmap_plot"), PlotKey("animated_vintages_plot")}
            \subseteq CachedKeys(session_state')
       /\ script' = "idle" =>
            /\ PlotKey("vintage_differences_plot") \in CachedKeys(session_state')
            /\ \E e \in session_state'.vintage_dates :
                 ComparisonKey(e.date1, e.date2) \in CachedKeys(session_state')
  /\ \A e \in session_state.cached_plots :
       (e.value = None /\ e.key \in plot_calls'.called) =>
         serial' = serial + 1

\* C26: an exception of a plot-generation function called through
\* manage_plot does not end display_visualizations; the key is cached as
\* None, the remaining views are made, and later renders that are not
\* forced do not call the generator of that key again while the cache is
\* not emptied.
C26_FailureIsCachedAsNone == [][DegradesToUnavailable]_vars

\* The heatmap could not be generated, None is cached under its key, and
\* a later run of the script has rendered the views without calling any
\* generation_func.
C26_Witness ==
  /\ ret.op = "rerun"
  /\ script = "idle"
  /\ Held
  /\ session_state.plots_generated
  /\ plot_calls = NoPlotCalls
  /\ \E e \in session_state.cached_plots :
       e.key = PlotKey("heatmap_plot") /\ e.value = None
  /\ \E e \in session_state.cached_plots :
       e.key = PlotKey("animated_vintages_plot") /\ e.value # None
\* C27: logged_in is true only with a ceic_client that is not None; a
\* failed login attempt leaves logged_in false and ceic_client None; an
\* attempt without a username or a password does not call Ceic.login; and
\* what main_app does (a load, a search, a selection, a fetch) is done in
\* a logged-in session, a fetch with the client of the session.
C27_LoggedInHasClient ==
  /\ session_state.logged_in => session_state.ceic_client # None
  /\ (ret.op = "login" /\ ret.failed) =>
       ~session_state.logged_in /\ session_state.ceic_client = None
  /\ (ret.op = "login" /\ ~ret.given) =>
       /\ ret.login_calls = 0
       /\ ~session_state.logged_in /\ session_state.ceic_client = None
  /\ ret.op \in {"load_by_id", "search", "select_series", "load_data_visualize",
                 "select_comparison_date", "rerun"} =>
       session_state.logged_in
  /\ serial > 0 =>
       /\ session_state.logged_in
       /\ ceic_client = session_state.ceic_client.name

\* Ceic.login was called and raised: nobody is logged in.
C27_Witness ==
  /\ ret.op = "login"
  /\ ret.failed
  /\ ret.login_calls = 1
  /\ ~session_state.logged_in
  /\ session_state.ceic_client = None
====
